---- MODULE Spec2Model ----
(***************************************************************************)
(* Model of the ControllerEmulator input-to-gamepad engine:                *)
(*   GamepadController (infrastructure/gamepad_controller.py),             *)
(*   InputHandler      (application/input_handlers.py),                    *)
(*   the two conditional-suppress listeners (application/input_listeners), *)
(*   Config            (config/config.py) and the processing loop of       *)
(*   main.py.                                                              *)
(*                                                                         *)
(* Four threads run the code: "kb" (keyboard listener callbacks), "ms"     *)
(* (mouse listener callbacks), "sched" (processing_loop) and "gui" (the    *)
(* Tk main thread).  Every handler is a sequence of steps; a step reads or *)
(* writes shared state once, so that the interleavings the interpreter     *)
(* allows are the interleavings of the model.                              *)
(*                                                                         *)
(* Numbers.  Analog values are fixed point: Unit stands for 1.0, so the    *)
(* deadzone 0.0012 is 120.  Tunables keep the scale written next to them.  *)
(* Time is counted in periods of 1/240 s, relative to _last_update.        *)
(***************************************************************************)
EXTENDS Integers, Sequences, FiniteSets, TLC

\* ------------------------------------------------------------------ bounds

\* Largest magnitude the pending mouse accumulator may reach (pixels).
MaxAccum == 2
\* Elapsed time since _last_update is tracked up to this many 1/240 s periods.
MaxElapsed == 4
\* Largest displacement pending at a tick of the look-stick specification
\* (pixels).
MaxLook == 1000

\* ------------------------------------------------------- program constants

\* 1.0 of an analog channel.
Unit == 100000
\* Number of repetitions of the wake-up signal (range(2)).
WakeRepeats == 2

Threads == {"kb", "ms", "sched", "gui"}
Togglers == {"kb", "gui"}

\* Config.JOYSTICK_KEYS, in list order.
JOYSTICK_KEYS == <<"w", "a", "s", "d">>
JoystickKeySet == {JOYSTICK_KEYS[i] : i \in 1..Len(JOYSTICK_KEYS)}

\* Config.KEY_MAPPINGS as shipped (key -> XUSB_GAMEPAD_<button>).
DefaultKeyMappings ==
    [k \in {"space", "c", "r", "1", "2", "alt_l", "b", "3", "q", "e",
            "esc", "tab", "shift", "f"} |->
        CASE k = "space" -> "A"
          [] k = "c"     -> "B"
          [] k = "r"     -> "X"
          [] k = "1"     -> "Y"
          [] k = "2"     -> "DPAD_UP"
          [] k = "alt_l" -> "DPAD_DOWN"
          [] k = "b"     -> "DPAD_LEFT"
          [] k = "3"     -> "DPAD_RIGHT"
          [] k = "q"     -> "LEFT_SHOULDER"
          [] k = "e"     -> "RIGHT_SHOULDER"
          [] k = "esc"   -> "START"
          [] k = "tab"   -> "BACK"
          [] k = "shift" -> "LEFT_THUMB"
          [] k = "f"     -> "RIGHT_THUMB"]

\* The class attributes of Config.  Scales: SENS_X, SENS_Y, ADS_SENS_MULTIPLIER,
\* SMOOTHING and RECOIL_COMPENSATION in tenths, DPI_SCALING in thousandths,
\* DEADZONE in 1/Unit.
DefaultConfig ==
    [UPDATE_RATE_HZ         |-> 120,
     DPI_SCALING            |-> 13,
     SENS_X                 |-> 10,
     SENS_Y                 |-> 10,
     ADS_SENS_MULTIPLIER    |-> 9,
     DEADZONE               |-> 120,
     SMOOTHING              |-> 0,
     RECOIL_CONTROL_ENABLED |-> TRUE,
     RECOIL_COMPENSATION    |-> 18,
     KEY_MAPPINGS           |-> DefaultKeyMappings,
     TOGGLE_KEY             |-> "t"]

\* ------------------------------------------------------------------- state

VARIABLES
    Config,           \* the Config class attributes
    active,           \* GamepadController._active
    gamepad,          \* GamepadController._gamepad is not None
    lock,             \* owner of GamepadController._lock, or "none"
    mouse_dx,         \* GamepadController.mouse_dx (pixels)
    mouse_dy,         \* GamepadController.mouse_dy
    keys,             \* GamepadController.keys: key -> held
    joystick_keys,    \* GamepadController.joystick_keys: key -> held
    last_l,           \* <<last_lx, last_ly>>
    last_r,           \* <<last_rx, last_ry>>
    l2_held,          \* left mouse button (fire)
    r2_held,          \* right mouse button (aim)
    since_update,     \* time.time() - _last_update, in 1/240 s, saturating
    update_interval,  \* GamepadController._update_interval, in 1/240 s
    pad,              \* the report held by the virtual device object
    mouse_suppress,   \* ConditionalSuppressMouseListener._suppress
    kb_suppress,      \* ConditionalSuppressKeyboardListener._suppress
    cursor_hidden,    \* the cursor is hidden by CursorManager
    loop_running,     \* processing_loop is still inside its while loop
    pc,               \* per thread: the step it is at
    op,               \* per thread: the handler it is running
    loc,              \* per thread: the handler's local variables
    retval,           \* per thread: what the handler returned
    calls,            \* per thread: collaborator calls made by the running handler
    owed,             \* <<x, y>>: displacement accumulated minus displacement drained
    fresh,            \* "deact": deactivated since the last activation; "react":
                      \* re-activated since, with no input event and no tick yet
    toggle_key,       \* ConditionalSuppressKeyboardListener._toggle_key
    down,             \* keys physically held, where the specification watches
                      \* the keyboard (KeyDown, KeyUp); empty elsewhere
    odd_presses,      \* an odd number of toggle-key presses was delivered,
                      \* where the specification counts them (CountedPress)
    cursor_enabled,   \* CursorManager.enabled (center_x, center_y exist)
    cur,              \* the call of hide_cursor() or show_cursor() in progress
    entry_bg          \* SettingsDialog: background of each entry widget

ctrl == <<active, gamepad, mouse_dx, mouse_dy, keys, joystick_keys, last_l,
          last_r, l2_held, r2_held, update_interval>>
collab == <<pad, mouse_suppress, kb_suppress, cursor_hidden>>
thr == <<pc, op, loc, retval, calls>>
env == <<toggle_key, cursor_enabled, cur, entry_bg>>
cfg == <<Config, env>>
watch == <<down, odd_presses>>
book == <<owed, fresh, watch>>
vars == <<cfg, ctrl, collab, thr, lock, since_update, loop_running, book>>

\* ----------------------------------------------------------------- helpers

Abs(x) == IF x < 0 THEN -x ELSE x
Min(a, b) == IF a < b THEN a ELSE b
Max(a, b) == IF a > b THEN a ELSE b

\* A neutral device report: what a freshly created VX360Gamepad holds.
NeutralPad == [lx |-> 0, ly |-> 0, rx |-> 0, ry |-> 0, lt |-> 0, rt |-> 0,
               buttons |-> {}]

NoLocals == [dx |-> 0, dy |-> 0, tmp |-> 0, seen |-> {}]

Say(t, names) == [calls EXCEPT ![t] = @ \o names]

\* A handler of thread t ends: it moves to "ret" holding its return value.
Finish(t, value) ==
    /\ pc' = [pc EXCEPT ![t] = "ret"]
    /\ retval' = [retval EXCEPT ![t] = value]

Goto(t, label) == pc' = [pc EXCEPT ![t] = label]

Idle == \A t \in Threads : pc[t] = "idle"

\* Faulty variant of CanAcquire: the with self._lock blocks left out.
CanAcquireAlways(t) == TRUE

\* with self._lock: the lock can be taken when no other thread holds it (no
\* thread of the program takes it twice).
CanAcquire(t) == lock = "none"

\* An input event or a tick ends the quiet stretch that follows a re-activation.
Disturbed == IF fresh = "react" THEN "none" ELSE fresh

\* CursorManager.center_x, center_y: GetSystemMetrics(0) // 2, (1) // 2.
center == <<960, 540>>

\* No call of the cursor manager is in progress.
CurIdle ==
    [pc |-> "idle", op |-> "none", count |-> 0, cursor_count |-> 0,
     os_calls |-> 0, raised |-> FALSE, result |-> "none"]

\* The rows of the settings dialog.
SettingsFields == {"rate", "ads", "recoil"}

\* 1.0 / rate, in 1/240 s.
UpdateInterval(rate) == 240 \div rate

\* -------------------------------------------------------------------- Init

\* The state main() leaves behind: a constructed controller (whose constructor
\* tried to create the device), both listeners attached and started, the
\* processing thread started.
Init ==
    /\ Config = DefaultConfig
    /\ active = FALSE
    /\ gamepad \in BOOLEAN
    /\ lock = "none"
    /\ mouse_dx = 0
    /\ mouse_dy = 0
    /\ keys = [k \in DOMAIN DefaultConfig.KEY_MAPPINGS |-> FALSE]
    /\ joystick_keys = [k \in JoystickKeySet |-> FALSE]
    /\ last_l = <<0, 0>>
    /\ last_r = <<0, 0>>
    /\ l2_held = FALSE
    /\ r2_held = FALSE
    /\ since_update = 0
    /\ update_interval = UpdateInterval(DefaultConfig.UPDATE_RATE_HZ)
    /\ pad = NeutralPad
    /\ mouse_suppress = FALSE
    /\ kb_suppress = FALSE
    /\ cursor_hidden = FALSE
    /\ loop_running = TRUE
    /\ pc = [t \in Threads |-> "idle"]
    /\ op = [t \in Threads |-> "none"]
    /\ loc = [t \in Threads |-> NoLocals]
    /\ retval = [t \in Threads |-> "none"]
    /\ calls = [t \in Threads |-> << >>]
    /\ owed = <<0, 0>>
    /\ fresh = "none"
    /\ toggle_key = DefaultConfig.TOGGLE_KEY
    /\ down = {}
    /\ odd_presses = FALSE
    /\ cursor_enabled = TRUE
    /\ cur = CurIdle
    /\ entry_bg = [f \in SettingsFields |-> "white"]

\* ------------------------------------------------ GamepadController.activate

\* Faulty variant of InitializeGamepad: the except branch returns True as well.
InitializeGamepadAlwaysTrue(created) == TRUE

\* initialize_gamepad(): creating the device may raise; the error is caught and
\* reported as False.  created tells whether vg.VX360Gamepad() succeeds.
InitializeGamepad(created) == gamepad \/ created

\* Faulty variant of ActEnter: no early return when already active.
ActEnterUnchecked(t) ==
    /\ pc[t] = "act_enter"
    /\ CanAcquire(t)
    /\ lock' = t
    /\ Goto(t, "act_init")
    /\ UNCHANGED <<cfg, ctrl, collab, op, loc, retval, calls, since_update,
                   loop_running, book>>

\* with self._lock: if self._active: return True
ActEnter(t) ==
    /\ pc[t] = "act_enter"
    /\ CanAcquire(t)
    /\ IF active
         THEN /\ Finish(t, "True")
              /\ UNCHANGED lock
         ELSE /\ lock' = t
              /\ Goto(t, "act_init")
              /\ UNCHANGED retval
    /\ UNCHANGED <<cfg, ctrl, collab, op, loc, calls, since_update,
                   loop_running, book>>

\* if not self.initialize_gamepad(): return False
ActInit(t, created) ==
    /\ pc[t] = "act_init"
    /\ IF InitializeGamepad(created)
         THEN /\ Goto(t, "act_wake")
              /\ UNCHANGED <<lock, retval>>
         ELSE /\ lock' = "none"
              /\ Finish(t, "False")
    /\ gamepad' = (gamepad \/ created)
    /\ pad' = IF gamepad THEN pad ELSE NeutralPad
    /\ UNCHANGED <<cfg, active, mouse_dx, mouse_dy, keys, joystick_keys,
                   last_l, last_r, l2_held, r2_held, update_interval,
                   mouse_suppress, kb_suppress, cursor_hidden, op, loc, calls,
                   since_update, loop_running, book>>

\* One half of a wake-up repetition: stick and BACK button written, then update().
WakePress(p) == [p EXCEPT !.rx = Unit \div 2, !.ry = 0,
                          !.buttons = @ \cup {"BACK"}]
WakeRelease(p) == [p EXCEPT !.rx = 0, !.ry = 0, !.buttons = @ \ {"BACK"}]

\* The report after the wake-up signal ran until its n-th update() (n = 0: none
\* of its 2 * WakeRepeats updates was reached).
RECURSIVE WakePad(_, _)
WakePad(p, n) ==
    IF n = 0 THEN p
    ELSE IF n % 2 = 1 THEN WakePress(WakePad(p, n - 1))
    ELSE WakeRelease(WakePad(p, n - 1))

RECURSIVE WakeCalls(_)
WakeCalls(n) ==
    IF n = 0 THEN << >>
    ELSE WakeCalls(n - 1) \o
         (IF n % 2 = 1
            THEN <<"right_joystick", "press_button", "update">>
            ELSE <<"right_joystick", "release_button", "update">>)

\* Faulty variant of ActWake: the wake-up signal is left out.
ActWakeSkipped(t, failed) ==
    /\ pc[t] = "act_wake"
    /\ Goto(t, "act_suppress")
    /\ UNCHANGED <<cfg, ctrl, collab, op, loc, retval, calls, lock,
                   since_update, loop_running, book>>

\* The wake-up signal (if self._gamepad: ...).  update() may raise at any of its calls; failed = 0 when
\* none raises, else the index of the call that raised.  An error leaves the
\* with block (releasing the lock) and propagates out of activate().
ActWake(t, failed) ==
    /\ pc[t] = "act_wake"
    /\ IF ~gamepad
         THEN /\ Goto(t, "act_suppress")
              /\ UNCHANGED <<pad, calls, lock, retval>>
         ELSE IF failed = 0
         THEN /\ pad' = WakePad(pad, 2 * WakeRepeats)
              /\ calls' = Say(t, WakeCalls(2 * WakeRepeats))
              /\ Goto(t, "act_suppress")
              /\ UNCHANGED <<lock, retval>>
         ELSE /\ pad' = WakePad(pad, failed)
              /\ calls' = Say(t, WakeCalls(failed))
              /\ lock' = "none"
              /\ Finish(t, "raise")
    /\ UNCHANGED <<cfg, ctrl, mouse_suppress, kb_suppress, cursor_hidden,
                   op, loc, since_update, loop_running, book>>

\* mouse_listener.suppress_events(True); keyboard_listener.suppress_events(True)
ActSuppress(t) ==
    /\ pc[t] = "act_suppress"
    /\ mouse_suppress' = TRUE
    /\ kb_suppress' = TRUE
    /\ calls' = Say(t, <<"mouse_suppress_on", "kb_suppress_on">>)
    /\ Goto(t, "act_cursor")
    /\ UNCHANGED <<cfg, ctrl, pad, cursor_hidden, op, loc, retval, lock,
                   since_update, loop_running, book>>

\* cursor_manager.lock_to_center(); cursor_manager.hide_cursor(): both return
\* False at once when the cursor manager is not enabled.
ActCursor(t) ==
    /\ pc[t] = "act_cursor"
    /\ cursor_hidden' = cursor_enabled
    /\ calls' = Say(t, <<"lock_to_center", "hide_cursor">>)
    /\ Goto(t, "act_commit")
    /\ UNCHANGED <<cfg, ctrl, pad, mouse_suppress, kb_suppress, op, loc,
                   retval, lock, since_update, loop_running, book>>

\* self._active = True; return True (leaving the with block)
ActCommit(t) ==
    /\ pc[t] = "act_commit"
    /\ active' = TRUE
    /\ lock' = "none"
    /\ Finish(t, "True")
    /\ UNCHANGED <<cfg, gamepad, mouse_dx, mouse_dy, keys, joystick_keys,
                   last_l, last_r, l2_held, r2_held, update_interval, collab,
                   op, loc, calls, since_update, loop_running, owed>>
    /\ fresh' = IF fresh = "deact" THEN "react" ELSE "none"
    /\ UNCHANGED watch

\* ---------------------------------------------- GamepadController.deactivate

Range(f) == {f[k] : k \in DOMAIN f}

\* with self._lock: if not self._active: return;  self._active = False
DeactEnter(t) ==
    /\ pc[t] = "deact_enter"
    /\ CanAcquire(t)
    /\ IF ~active
         THEN /\ Finish(t, "None")
              /\ UNCHANGED <<lock, active>>
         ELSE /\ lock' = t
              /\ active' = FALSE
              /\ Goto(t, "deact_reset")
              /\ UNCHANGED retval
    /\ UNCHANGED <<cfg, gamepad, mouse_dx, mouse_dy, keys, joystick_keys,
                   last_l, last_r, l2_held, r2_held, update_interval, collab,
                   op, loc, calls, since_update, loop_running, book>>

\* Faulty variant of ResetPad: only the sticks are reset.
ResetPadSticksOnly(p, mappings) ==
    [p EXCEPT !.lx = 0, !.ly = 0, !.rx = 0, !.ry = 0]

\* The writes of _reset_gamepad: both sticks, every button of the table, both
\* triggers.
ResetPad(p, mappings) ==
    [p EXCEPT !.lx = 0, !.ly = 0, !.rx = 0, !.ry = 0,
              !.buttons = @ \ Range(mappings), !.lt = 0, !.rt = 0]

RECURSIVE Repeat(_, _)
Repeat(name, n) == IF n = 0 THEN << >> ELSE <<name>> \o Repeat(name, n - 1)

ResetCalls(mappings) ==
    <<"left_joystick", "right_joystick">>
    \o Repeat("release_button", Cardinality(DOMAIN mappings))
    \o <<"left_trigger", "right_trigger", "update">>

\* _reset_gamepad(): nothing without a device; an error raised by update() is
\* caught and printed, so the caller goes on either way.
ResetGamepad(t) ==
    IF ~gamepad
      THEN UNCHANGED <<pad, calls>>
      ELSE /\ pad' = ResetPad(pad, Config.KEY_MAPPINGS)
           /\ calls' = Say(t, ResetCalls(Config.KEY_MAPPINGS))

DeactReset(t) ==
    /\ pc[t] = "deact_reset"
    /\ ResetGamepad(t)
    /\ Goto(t, "deact_clear")
    /\ UNCHANGED <<cfg, ctrl, mouse_suppress, kb_suppress, cursor_hidden,
                   op, loc, retval, lock, since_update, loop_running, book>>

\* for key in self.joystick_keys: ... = False; for key in self.keys: ... = False
ClearKeyStates ==
    /\ joystick_keys' = [k \in DOMAIN joystick_keys |-> FALSE]
    /\ keys' = [k \in DOMAIN keys |-> FALSE]
    /\ UNCHANGED <<l2_held, r2_held>>

DeactClear(t) ==
    /\ pc[t] = "deact_clear"
    /\ ClearKeyStates
    /\ Goto(t, "deact_unsuppress")
    /\ UNCHANGED <<cfg, active, gamepad, mouse_dx, mouse_dy, last_l, last_r,
                   update_interval, collab, op, loc, retval, calls, lock,
                   since_update, loop_running, book>>

\* mouse_listener.suppress_events(False); keyboard_listener.suppress_events(False)
DeactUnsuppress(t) ==
    /\ pc[t] = "deact_unsuppress"
    /\ mouse_suppress' = FALSE
    /\ kb_suppress' = FALSE
    /\ calls' = Say(t, <<"mouse_suppress_off", "kb_suppress_off">>)
    /\ Goto(t, "deact_cursor")
    /\ UNCHANGED <<cfg, ctrl, pad, cursor_hidden, op, loc, retval, lock,
                   since_update, loop_running, book>>

\* cursor_manager.show_cursor() (False at once when not enabled); the with
\* block ends
DeactCursor(t) ==
    /\ pc[t] = "deact_cursor"
    /\ cursor_hidden' = IF cursor_enabled THEN FALSE ELSE cursor_hidden
    /\ calls' = Say(t, <<"show_cursor">>)
    /\ lock' = "none"
    /\ Finish(t, "None")
    /\ UNCHANGED <<cfg, ctrl, pad, mouse_suppress, kb_suppress, op, loc,
                   since_update, loop_running, owed>>
    /\ fresh' = "deact"
    /\ UNCHANGED watch

\* The caller has its return value; the thread is free for the next event.
Return(t) ==
    /\ pc[t] = "ret"
    /\ op[t] # "shutdown"
    /\ pc' = [pc EXCEPT ![t] = "idle"]
    /\ op' = [op EXCEPT ![t] = "none"]
    /\ loc' = [loc EXCEPT ![t] = NoLocals]
    /\ retval' = [retval EXCEPT ![t] = "none"]
    /\ calls' = [calls EXCEPT ![t] = << >>]
    /\ UNCHANGED <<cfg, ctrl, collab, lock, since_update, loop_running, book>>

\* -------------------------------------------------- InputHandler (keyboard)

\* A pynput key: a character key carries char, a special key its Key.<name>.
CharKey(c) == [char |-> c, name |-> ""]
SpecialKey(n) == [char |-> "", name |-> n]

\* str.lower() on the characters the model types.
Lower(c) ==
    CASE c = "T" -> "t"
      [] c = "W" -> "w"
      [] OTHER   -> c

\* InputHandler._parse_key
ParseKey(key) ==
    IF key.char # "" THEN Lower(key.char)
    ELSE IF key.name = "alt" THEN "alt_r"
    ELSE IF key.name \in {"shift", "shift_l", "shift_r"} THEN "shift"
    ELSE key.name

\* A key object without char whose str() raises: _parse_key raises on it, and
\* the handler's except branch prints the error and returns.
BrokenKey == [char |-> "", name |-> "<str raises>"]
ParseRaises(key) == key = BrokenKey

\* Faulty variant of Toggle: every toggle signal calls activate().
ToggleAlwaysActivates(t) ==
    /\ pc[t] = "idle"
    /\ Goto(t, "act_enter")
    /\ op' = [op EXCEPT ![t] = "activate"]
    /\ UNCHANGED <<cfg, ctrl, collab, loc, retval, calls, lock,
                   since_update, loop_running, owed, fresh>>

\* if self.controller.active: deactivate() else: activate()
\* (the flag is read before either method takes the lock)
Toggle(t) ==
    /\ pc[t] = "idle"
    /\ IF active
         THEN /\ Goto(t, "deact_enter")
              /\ op' = [op EXCEPT ![t] = "deactivate"]
         ELSE /\ Goto(t, "act_enter")
              /\ op' = [op EXCEPT ![t] = "activate"]
    /\ UNCHANGED <<cfg, ctrl, collab, loc, retval, calls, lock,
                   since_update, loop_running, owed, fresh>>

\* Faulty variant of PressFlag: a key that is not a direction key is stored
\* without looking it up in the table.
PressFlagUnchecked(key_str) ==
    IF key_str \in JoystickKeySet
      THEN /\ joystick_keys' = [joystick_keys EXCEPT ![key_str] = TRUE]
           /\ UNCHANGED keys
      ELSE /\ keys' = (key_str :> TRUE) @@ keys
           /\ UNCHANGED joystick_keys

\* on_key_press for every key but the toggle key: one dictionary store.
PressFlag(key_str) ==
    IF key_str \in JoystickKeySet
      THEN /\ joystick_keys' = [joystick_keys EXCEPT ![key_str] = TRUE]
           /\ UNCHANGED keys
      ELSE IF key_str \in DOMAIN Config.KEY_MAPPINGS
        THEN /\ keys' = (key_str :> TRUE) @@ keys
             /\ UNCHANGED joystick_keys
        ELSE UNCHANGED <<keys, joystick_keys>>

OnKeyPress(key) ==
    /\ pc["kb"] = "idle"
    /\ IF ~ParseRaises(key) /\ ParseKey(key) = Config.TOGGLE_KEY
         THEN Toggle("kb")
         ELSE /\ IF ParseRaises(key)
                   THEN UNCHANGED <<keys, joystick_keys>>
                   ELSE PressFlag(ParseKey(key))
              /\ fresh' = Disturbed
              /\ UNCHANGED <<cfg, active, gamepad, mouse_dx, mouse_dy,
                             last_l, last_r, l2_held, r2_held, update_interval,
                             collab, thr, lock, since_update, loop_running, owed>>

ReleaseFlag(key_str) ==
    IF key_str \in JoystickKeySet
      THEN /\ joystick_keys' = [joystick_keys EXCEPT ![key_str] = FALSE]
           /\ UNCHANGED keys
      ELSE IF key_str \in DOMAIN Config.KEY_MAPPINGS
        THEN /\ keys' = (key_str :> FALSE) @@ keys
             /\ UNCHANGED joystick_keys
        ELSE UNCHANGED <<keys, joystick_keys>>

OnKeyRelease(key) ==
    /\ pc["kb"] = "idle"
    /\ IF ParseRaises(key)
         THEN UNCHANGED <<keys, joystick_keys>>
         ELSE ReleaseFlag(ParseKey(key))
    /\ UNCHANGED <<cfg, active, gamepad, mouse_dx, mouse_dy, last_l, last_r,
                   l2_held, r2_held, update_interval, collab, thr, lock,
                   since_update, loop_running, owed>>
    /\ fresh' = Disturbed

\* MainWindow._toggle_controller
GuiToggle == Toggle("gui") /\ UNCHANGED watch

\* ----------------------------------------------------- InputHandler (mouse)

\* Faulty variant of MmBegin: the active flag is not looked at.
MmBeginUnchecked(x, y) ==
    /\ pc["ms"] = "idle"
    /\ op' = [op EXCEPT !["ms"] = "on_mouse_move"]
    /\ loc' = [loc EXCEPT !["ms"].dx = x - center[1],
                          !["ms"].dy = y - center[2]]
    /\ Goto("ms", "mm_load_x")
    /\ UNCHANGED <<cfg, ctrl, collab, retval, calls, lock, since_update,
                   loop_running, owed, watch>>
    /\ fresh' = Disturbed

\* on_mouse_move: if not self.controller.active: return; else the delta from the
\* screen centre is computed.  A cursor manager whose constructor failed has no
\* center_x: reading it raises AttributeError, which nothing in on_mouse_move
\* catches.
MmBegin(x, y) ==
    /\ pc["ms"] = "idle"
    /\ op' = [op EXCEPT !["ms"] = "on_mouse_move"]
    /\ IF ~active
         THEN /\ Finish("ms", "None")
              /\ UNCHANGED loc
         ELSE IF ~cursor_enabled
         THEN /\ Finish("ms", "raise")
              /\ UNCHANGED loc
         ELSE /\ loc' = [loc EXCEPT !["ms"].dx = x - center[1],
                                    !["ms"].dy = y - center[2]]
              /\ Goto("ms", "mm_load_x")
              /\ UNCHANGED retval
    /\ UNCHANGED <<cfg, ctrl, collab, calls, lock, since_update,
                   loop_running, owed>>
    /\ fresh' = Disturbed
    /\ UNCHANGED watch

\* self.controller.mouse_dx += dx is a load, an add and a store.
MmLoadX ==
    /\ pc["ms"] = "mm_load_x"
    /\ loc' = [loc EXCEPT !["ms"].tmp = mouse_dx]
    /\ Goto("ms", "mm_store_x")
    /\ UNCHANGED <<cfg, ctrl, collab, op, retval, calls, lock,
                   since_update, loop_running, book>>

MmStoreX ==
    /\ pc["ms"] = "mm_store_x"
    /\ mouse_dx' = loc["ms"].tmp + loc["ms"].dx
    /\ UNCHANGED fresh
    /\ owed' = <<owed[1] + loc["ms"].dx, owed[2]>>
    /\ Goto("ms", "mm_load_y")
    /\ UNCHANGED <<cfg, active, gamepad, mouse_dy, keys, joystick_keys,
                   last_l, last_r, l2_held, r2_held, update_interval, collab,
                   op, loc, retval, calls, lock, since_update, loop_running>>
    /\ UNCHANGED watch

MmLoadY ==
    /\ pc["ms"] = "mm_load_y"
    /\ loc' = [loc EXCEPT !["ms"].tmp = mouse_dy]
    /\ Goto("ms", "mm_store_y")
    /\ UNCHANGED <<cfg, ctrl, collab, op, retval, calls, lock,
                   since_update, loop_running, book>>

\* The second store completes the update.  A drain that has read mouse_dx and
\* not yet mouse_dy sees a new whole accumulator value go by.
MmStoreY ==
    /\ pc["ms"] = "mm_store_y"
    /\ mouse_dy' = loc["ms"].tmp + loc["ms"].dy
    /\ UNCHANGED fresh
    /\ owed' = <<owed[1], owed[2] + loc["ms"].dy>>
    /\ loc' = IF pc["sched"] = "pi_read_dy"
                THEN [loc EXCEPT !["sched"].seen = @ \cup {<<mouse_dx, mouse_dy'>>}]
                ELSE loc
    /\ Goto("ms", "mm_lock")
    /\ UNCHANGED <<cfg, active, gamepad, mouse_dx, keys, joystick_keys,
                   last_l, last_r, l2_held, r2_held, update_interval, collab,
                   op, retval, calls, lock, since_update, loop_running>>
    /\ UNCHANGED watch

\* self.controller.cursor_manager.lock_to_center()
MmLock ==
    /\ pc["ms"] = "mm_lock"
    /\ calls' = Say("ms", <<"lock_to_center">>)
    /\ Finish("ms", "None")
    /\ UNCHANGED <<cfg, ctrl, collab, op, loc, lock, since_update,
                   loop_running, book>>

\* on_mouse_click: the left button is the fire flag, the right the aim flag.
OnMouseClick(button, pressed) ==
    /\ pc["ms"] = "idle"
    /\ l2_held' = IF button = "left" THEN pressed ELSE l2_held
    /\ r2_held' = IF button = "right" THEN pressed ELSE r2_held
    /\ UNCHANGED <<cfg, active, gamepad, mouse_dx, mouse_dy, keys,
                   joystick_keys, last_l, last_r, update_interval, collab, thr,
                   lock, since_update, loop_running, owed>>
    /\ fresh' = Disturbed
    /\ UNCHANGED watch

\* ------------------------------------------ GamepadController.process_inputs

\* Division rounding toward zero, as the magnitude of a float quotient.
Quot(a, b) == IF a >= 0 THEN a \div b ELSE -((-a) \div b)

\* Largest r with r * r <= n.
RECURSIVE ISqrtFrom(_, _, _)
ISqrtFrom(n, lo, hi) ==
    IF lo >= hi THEN lo
    ELSE LET mid == (lo + hi + 1) \div 2
         IN IF mid * mid <= n THEN ISqrtFrom(n, mid, hi)
            ELSE ISqrtFrom(n, lo, mid - 1)
ISqrt(n) == ISqrtFrom(n, 0, Min(n, 46340))

\* math.sqrt of a small whole number m, truncated to 1/Unit: the root of
\* m * (Unit / 10)^2 and one more decimal digit, so that no intermediate value
\* leaves 32 bits.
ScaledSqrt(m) ==
    LET n == m * (Unit \div 10) * (Unit \div 10)
        s == ISqrt(n)
        digit == CHOOSE d \in 0..9 :
                    /\ 20 * s * d + d * d <= 100 * (n - s * s)
                    /\ \A e \in (d + 1)..9 :
                          20 * s * e + e * e > 100 * (n - s * s)
    IN 10 * s + digit

\* x / d for x and d in 1/Unit, truncated to 1/Unit: long division in two
\* steps, so that no intermediate value leaves 32 bits.
ScaledQuot(x, d) ==
    LET a == Abs(x) * (Unit \div 10)
        q == (a \div d) * 10 + ((a % d) * 10) \div d
    IN IF x < 0 THEN -q ELSE q

\* _process_left_joystick: the stick a set of held direction keys gives.
RECURSIVE LeftSum(_, _)
LeftSum(jk, i) ==
    IF i = 0 THEN <<0, 0, FALSE>>
    ELSE LET acc == LeftSum(jk, i - 1)
             key == JOYSTICK_KEYS[i]
         IN IF ~jk[key] THEN acc
            ELSE <<acc[1] + (IF key = "d" THEN 1 ELSE IF key = "a" THEN -1 ELSE 0),
                   acc[2] + (IF key = "w" THEN 1 ELSE IF key = "s" THEN -1 ELSE 0),
                   TRUE>>

\* Faulty variant of LeftStick: a diagonal is not scaled.
LeftStickUnscaled(jk) ==
    LET sum == LeftSum(jk, Len(JOYSTICK_KEYS))
    IN IF ~sum[3] THEN <<0, 0>> ELSE <<sum[1] * Unit, sum[2] * Unit>>

LeftStick(jk) ==
    LET sum == LeftSum(jk, Len(JOYSTICK_KEYS))
        lx == sum[1] * Unit
        ly == sum[2] * Unit
        magnitude == ScaledSqrt(sum[1] * sum[1] + sum[2] * sum[2])
    IN IF ~sum[3] THEN <<0, 0>>
       ELSE IF lx # 0 /\ ly # 0
         THEN <<ScaledQuot(lx, magnitude), ScaledQuot(ly, magnitude)>>
         ELSE <<lx, ly>>

\* Faulty variant of Deadzone: a value equal to the deadzone is kept.
DeadzoneStrict(v, c) == IF Abs(v) >= c.DEADZONE THEN v ELSE 0

\* rx = rx if abs(rx) > Config.DEADZONE else 0.0
Deadzone(v, c) == IF Abs(v) > c.DEADZONE THEN v ELSE 0

\* Faulty variant of Smooth: the previous output is left out.
SmoothDropsLast(last, v, c) == Quot(v * (10 - c.SMOOTHING), 10)

Smooth(last, v, c) == Quot(last * c.SMOOTHING + v * (10 - c.SMOOTHING), 10)

\* Faulty variant of Clamp: no clamping.
ClampNothing(v) == v

Clamp(v) == Max(-Unit, Min(Unit, v))

\* Faulty variant of Recoil: the compensation is added whether or not the fire
\* flag is held.
RecoilAlways(c, fire) == IF c.RECOIL_CONTROL_ENABLED THEN c.RECOIL_COMPENSATION ELSE 0

\* Faulty variant of Recoil: the compensation is added whenever the fire flag
\* is held, whether or not recoil control is enabled.
RecoilIgnoresSwitch(c, fire) == IF fire THEN c.RECOIL_COMPENSATION ELSE 0

\* if Config.RECOIL_CONTROL_ENABLED and self.l2_held: dy += RECOIL_COMPENSATION
\* (what is added, in tenths of a pixel)
Recoil(c, fire) ==
    IF c.RECOIL_CONTROL_ENABLED /\ fire THEN c.RECOIL_COMPENSATION ELSE 0

\* _process_right_joystick after the drain, up to the sensitivity scaling:
\* recoil, sensitivity (the vertical axis inverted).
LookScaled(dx, dy, c, fire, aim) ==
    LET dy10 == dy * 10 + Recoil(c, fire)
        sens_multiplier == IF aim THEN c.ADS_SENS_MULTIPLIER ELSE 10
        rx == dx * c.SENS_X * sens_multiplier * c.DPI_SCALING
        ry == Quot((-dy10) * c.SENS_Y * sens_multiplier * c.DPI_SCALING, 10)
    IN <<rx, ry>>

\* _process_right_joystick after the drain, up to the deadzone: recoil,
\* sensitivity, deadzone.
LookTarget(dx, dy, c, fire, aim) ==
    LET scaled == LookScaled(dx, dy, c, fire, aim)
    IN <<Deadzone(scaled[1], c), Deadzone(scaled[2], c)>>

\* _process_right_joystick after the drain: recoil, sensitivity, deadzone,
\* smoothing, clamp.
RightStick(dx, dy, c, fire, aim, last) ==
    LET target == LookTarget(dx, dy, c, fire, aim)
    IN <<Clamp(Smooth(last[1], target[1], c)),
         Clamp(Smooth(last[2], target[2], c))>>

\* Faulty variant of Buttons: edge-triggered, a button is only ever pressed.
ButtonsPressOnly(p, mappings, held) ==
    p.buttons \cup {mappings[k] : k \in {j \in DOMAIN mappings :
                                           j \in DOMAIN held /\ held[j]}}

\* _process_buttons: every button of the table pressed or released by its key.
Buttons(p, mappings, held) ==
    (p.buttons \ Range(mappings))
    \cup {mappings[k] : k \in {j \in DOMAIN mappings :
                                 j \in DOMAIN held /\ held[j]}}

\* Faulty variant of TooEarly: no rate gate.
TooEarlyNever == FALSE

\* current_time - self._last_update < self._update_interval
TooEarly == since_update < update_interval

\* Faulty variant of AfterLock: the mappers run whatever the state.
AfterLockAlwaysMaps == "pi_left"

\* if self._active: the four mappers run; update() follows either way.
AfterLock == IF active THEN "pi_left" ELSE "pi_update"

\* if <too early>: return;  self._last_update = current_time
PiBegin ==
    /\ pc["sched"] = "idle"
    /\ loop_running
    /\ op' = [op EXCEPT !["sched"] = "process_inputs"]
    /\ IF TooEarly
         THEN /\ Finish("sched", "None")
              /\ UNCHANGED since_update
         ELSE /\ since_update' = 0
              /\ Goto("sched", "pi_lock")
              /\ UNCHANGED retval
    /\ UNCHANGED <<cfg, ctrl, collab, loc, calls, lock, loop_running, book>>

\* with self._lock: if self._gamepad is None: return;  if self._active: ...
PiLock ==
    /\ pc["sched"] = "pi_lock"
    /\ CanAcquire("sched")
    /\ IF ~gamepad
         THEN /\ Finish("sched", "None")
              /\ UNCHANGED lock
         ELSE /\ lock' = "sched"
              /\ Goto("sched", AfterLock)
              /\ UNCHANGED retval
    /\ UNCHANGED <<cfg, ctrl, collab, op, loc, calls, since_update,
                   loop_running, book>>

PiLeft ==
    /\ pc["sched"] = "pi_left"
    /\ gamepad
    /\ LET l == LeftStick(joystick_keys)
       IN /\ pad' = [pad EXCEPT !.lx = l[1], !.ly = l[2]]
          /\ last_l' = l
    /\ calls' = Say("sched", <<"left_joystick">>)
    /\ Goto("sched", "pi_read_dx")
    /\ UNCHANGED <<cfg, active, gamepad, mouse_dx, mouse_dy, keys,
                   joystick_keys, last_r, l2_held, r2_held, update_interval,
                   mouse_suppress, kb_suppress, cursor_hidden, op, loc, retval,
                   lock, since_update, loop_running, book>>

\* on_mouse_move has stored mouse_dx and not yet mouse_dy.
MidUpdate == pc["ms"] \in {"mm_load_y", "mm_store_y"}

\* _get_mouse_movement: dx, dy = self.mouse_dx, self.mouse_dy (two loads) ...
PiReadDx ==
    /\ pc["sched"] = "pi_read_dx"
    /\ loc' = [loc EXCEPT !["sched"].dx = mouse_dx,
                          !["sched"].seen =
                              IF MidUpdate THEN {} ELSE {<<mouse_dx, mouse_dy>>}]
    /\ Goto("sched", "pi_read_dy")
    /\ UNCHANGED <<cfg, ctrl, collab, op, retval, calls, lock,
                   since_update, loop_running, book>>

PiReadDy ==
    /\ pc["sched"] = "pi_read_dy"
    /\ loc' = [loc EXCEPT !["sched"].dy = mouse_dy]
    /\ Goto("sched", "pi_zero_dx")
    /\ UNCHANGED <<cfg, ctrl, collab, op, retval, calls, lock,
                   since_update, loop_running, book>>

\* Faulty variant of PiZeroDx: mouse_dx is not reset.
PiZeroDxKeeps ==
    /\ pc["sched"] = "pi_zero_dx"
    /\ Goto("sched", "pi_zero_dy")
    /\ UNCHANGED <<cfg, ctrl, collab, op, loc, retval, calls, lock,
                   since_update, loop_running, book>>

\* ... self.mouse_dx = 0.0
PiZeroDx ==
    /\ pc["sched"] = "pi_zero_dx"
    /\ mouse_dx' = 0
    /\ Goto("sched", "pi_zero_dy")
    /\ UNCHANGED <<cfg, active, gamepad, mouse_dy, keys, joystick_keys,
                   last_l, last_r, l2_held, r2_held, update_interval, collab,
                   op, loc, retval, calls, lock, since_update, loop_running,
                   book>>

\* ... self.mouse_dy = 0.0; return dx, dy
PiZeroDy ==
    /\ pc["sched"] = "pi_zero_dy"
    /\ mouse_dy' = 0
    /\ UNCHANGED fresh
    /\ owed' = <<owed[1] - loc["sched"].dx, owed[2] - loc["sched"].dy>>
    /\ Goto("sched", "pi_right")
    /\ UNCHANGED <<cfg, active, gamepad, mouse_dx, keys, joystick_keys,
                   last_l, last_r, l2_held, r2_held, update_interval, collab,
                   op, loc, retval, calls, lock, since_update, loop_running>>
    /\ UNCHANGED watch

PiRight ==
    /\ pc["sched"] = "pi_right"
    /\ gamepad
    /\ LET r == RightStick(loc["sched"].dx, loc["sched"].dy, Config, l2_held,
                           r2_held, last_r)
       IN /\ pad' = [pad EXCEPT !.rx = r[1], !.ry = r[2]]
          /\ last_r' = r
    /\ calls' = Say("sched", <<"right_joystick">>)
    /\ Goto("sched", "pi_buttons")
    /\ UNCHANGED <<cfg, active, gamepad, mouse_dx, mouse_dy, keys,
                   joystick_keys, last_l, l2_held, r2_held, update_interval,
                   mouse_suppress, kb_suppress, cursor_hidden, op, loc, retval,
                   lock, since_update, loop_running, book>>

PiButtons ==
    /\ pc["sched"] = "pi_buttons"
    /\ gamepad
    /\ pad' = [pad EXCEPT !.buttons = Buttons(pad, Config.KEY_MAPPINGS, keys)]
    /\ calls' = Say("sched", Repeat("button", Cardinality(DOMAIN Config.KEY_MAPPINGS)))
    /\ Goto("sched", "pi_triggers")
    /\ UNCHANGED <<cfg, ctrl, mouse_suppress, kb_suppress, cursor_hidden,
                   op, loc, retval, lock, since_update, loop_running, book>>

\* Faulty variant of Triggers: the two triggers exchanged.
TriggersSwapped(p, fire, aim) ==
    [p EXCEPT !.lt = IF fire THEN Unit ELSE 0,
              !.rt = IF aim THEN Unit ELSE 0]

\* _process_triggers: fire drives the right trigger, aim the left trigger.
Triggers(p, fire, aim) ==
    [p EXCEPT !.rt = IF fire THEN Unit ELSE 0,
              !.lt = IF aim THEN Unit ELSE 0]

PiTriggers ==
    /\ pc["sched"] = "pi_triggers"
    /\ gamepad
    /\ pad' = Triggers(pad, l2_held, r2_held)
    /\ calls' = Say("sched", <<"right_trigger", "left_trigger">>)
    /\ Goto("sched", "pi_update")
    /\ UNCHANGED <<cfg, ctrl, mouse_suppress, kb_suppress, cursor_hidden,
                   op, loc, retval, lock, since_update, loop_running, book>>

\* self._gamepad.update().  When it raises, the with block releases the lock and
\* the error ends the while loop of processing_loop, which prints it.
PiUpdate(raised) ==
    /\ pc["sched"] = "pi_update"
    /\ gamepad
    /\ calls' = Say("sched", <<"update">>)
    /\ lock' = "none"
    /\ loop_running' = ~raised
    /\ Finish("sched", IF raised THEN "raise" ELSE "None")
    /\ UNCHANGED <<cfg, ctrl, collab, op, loc, since_update, owed>>
    /\ fresh' = Disturbed
    /\ UNCHANGED watch

\* The positions of a tick whose next step calls a method of self._gamepad.
UsesHandle ==
    pc["sched"] \in {"pi_left", "pi_right", "pi_buttons", "pi_triggers",
                     "pi_update"}

\* self._gamepad was set to None after the tick's test of it: the next call on
\* it raises AttributeError, the with block releases the lock and the error
\* ends the while loop of processing_loop, which prints it.
PiHandleGone ==
    /\ UsesHandle
    /\ ~gamepad
    /\ lock' = "none"
    /\ loop_running' = FALSE
    /\ Finish("sched", "raise")
    /\ UNCHANGED <<cfg, ctrl, collab, op, loc, calls, since_update, book>>

\* Time passes.
Advance ==
    /\ since_update < MaxElapsed
    /\ since_update' = since_update + 1
    /\ UNCHANGED <<cfg, ctrl, collab, thr, lock, loop_running, book>>

\* ------------------------------------------- keyboard listener, key dialog

\* ConditionalSuppressKeyboardListener._suppress_event: a character key equal
\* to the listener's toggle key is let through, everything else follows the
\* suppression flag.
SuppressEvent(key) ==
    IF key.char # "" /\ Lower(key.char) = toggle_key
      THEN FALSE
      ELSE kb_suppress

\* A Tk key event of the dialog: its char and its keysym.
TkKey(c, sym) == [char |-> c, keysym |-> sym]

\* KeyMappingDialog._parse_event_key
ParseEventKey(event) ==
    IF event.char # "" THEN Lower(event.char)
    ELSE CASE event.keysym = "space"   -> "space"
           [] event.keysym = "Escape"  -> "esc"
           [] event.keysym = "Tab"     -> "tab"
           [] event.keysym = "Shift_L" -> "shift"
           [] event.keysym = "Shift_R" -> "shift"
           [] event.keysym = "Alt_L"   -> "alt_l"
           [] event.keysym = "Alt_R"   -> "alt_l"
           [] OTHER                    -> Lower(event.keysym)

\* KeyMappingDialog._remap_toggle_key: a key of the table or a direction key is
\* refused; otherwise Config.TOGGLE_KEY is replaced (the listener is not told).
RemapToggleKey(new_key) ==
    /\ pc["gui"] = "idle"
    /\ IF new_key \in DOMAIN Config.KEY_MAPPINGS \/ new_key \in JoystickKeySet
         THEN UNCHANGED Config
         ELSE Config' = [Config EXCEPT !.TOGGLE_KEY = new_key]
    /\ UNCHANGED <<env, ctrl, collab, thr, lock, since_update,
                   loop_running, book>>

\* Faulty variant of Rekey: the entry of old is not deleted.
RekeyKeepsOld(d, old, new, value) ==
    [k \in DOMAIN d \cup {new} |-> IF k = new THEN value ELSE d[k]]

\* del d[old]; d[new] = value
Rekey(d, old, new, value) ==
    [k \in (DOMAIN d \ {old}) \cup {new} |-> IF k = new THEN value ELSE d[k]]

\* KeyMappingDialog._remap_button_key with remapping_key = old: the button of
\* old moves to new_key in Config.KEY_MAPPINGS, and the held flag of old moves
\* to new_key in controller.keys.  (A row whose key has left the table raises
\* KeyError before anything is changed.)
RemapButtonKey(old, new_key) ==
    /\ pc["gui"] = "idle"
    /\ old \in DOMAIN Config.KEY_MAPPINGS
    /\ Config' = [Config EXCEPT !.KEY_MAPPINGS =
                     Rekey(@, old, new_key, Config.KEY_MAPPINGS[old])]
    /\ keys' = IF old \in DOMAIN keys
                 THEN Rekey(keys, old, new_key, keys[old])
                 ELSE keys
    /\ UNCHANGED <<env, active, gamepad, mouse_dx, mouse_dy,
                   joystick_keys, last_l, last_r, l2_held, r2_held,
                   update_interval, collab, thr, lock, since_update,
                   loop_running, book>>

\* Config.reset_to_defaults
ResetToDefaults(c) ==
    [c EXCEPT !.UPDATE_RATE_HZ = 120,
              !.ADS_SENS_MULTIPLIER = 9,
              !.RECOIL_COMPENSATION = 18,
              !.TOGGLE_KEY = "t",
              !.KEY_MAPPINGS = DefaultKeyMappings]

\* KeyMappingDialog._reset_defaults
ResetDefaults ==
    /\ pc["gui"] = "idle"
    /\ Config' = ResetToDefaults(Config)
    /\ keys' = [k \in DOMAIN DefaultKeyMappings |-> FALSE]
    /\ UNCHANGED <<env, active, gamepad, mouse_dx, mouse_dy,
                   joystick_keys, last_l, last_r, l2_held, r2_held,
                   update_interval, collab, thr, lock, since_update,
                   loop_running, book>>

\* ---------------------------------------------------------- SettingsDialog

\* int(text) for the texts the model types: the value, or ValueError.
ParseInt(text) ==
    CASE text = "60"  -> [ok |-> TRUE, value |-> 60]
      [] text = "240" -> [ok |-> TRUE, value |-> 240]
      [] text = "59"  -> [ok |-> TRUE, value |-> 59]
      [] text = "241" -> [ok |-> TRUE, value |-> 241]
      [] OTHER        -> [ok |-> FALSE, value |-> 0]

\* float(text) for the texts the model types, in tenths: the value, nan, or
\* ValueError.
ParseFloat(text) ==
    CASE text = "60"  -> [ok |-> TRUE, nan |-> FALSE, value |-> 600]
      [] text = "240" -> [ok |-> TRUE, nan |-> FALSE, value |-> 2400]
      [] text = "59"  -> [ok |-> TRUE, nan |-> FALSE, value |-> 590]
      [] text = "241" -> [ok |-> TRUE, nan |-> FALSE, value |-> 2410]
      [] text = "0.5" -> [ok |-> TRUE, nan |-> FALSE, value |-> 5]
      [] text = "2.1" -> [ok |-> TRUE, nan |-> FALSE, value |-> 21]
      [] text = "-0.1" -> [ok |-> TRUE, nan |-> FALSE, value |-> -1]
      [] text = "nan" -> [ok |-> TRUE, nan |-> TRUE, value |-> 0]
      [] OTHER        -> [ok |-> FALSE, nan |-> FALSE, value |-> 0]

\* lo <= value <= hi on floats: false when value is nan.
Between(lo, f, hi) == ~f.nan /\ lo <= f.value /\ f.value <= hi

\* Faulty variant of RateInRange: no range check.
RateInRangeAlways(value) == TRUE

\* if 60 <= value <= 240
RateInRange(value) == 60 <= value /\ value <= 240

Mark(field, colour) == entry_bg' = [entry_bg EXCEPT ![field] = colour]

\* GamepadController.update_rate
UpdateRate(new_rate) ==
    /\ Config' = [Config EXCEPT !.UPDATE_RATE_HZ = new_rate]
    /\ update_interval' = UpdateInterval(new_rate)

\* SettingsDialog._update_rate_changed
UpdateRateChanged(text) ==
    /\ pc["gui"] = "idle"
    /\ LET parsed == ParseInt(text)
       IN IF parsed.ok /\ RateInRange(parsed.value)
            THEN /\ UpdateRate(parsed.value)
                 /\ Mark("rate", "white")
            ELSE /\ Mark("rate", "#ffcccc")
                 /\ UNCHANGED <<Config, update_interval>>
    /\ UNCHANGED <<toggle_key, cursor_enabled, cur, active, gamepad, mouse_dx,
                   mouse_dy, keys, joystick_keys, last_l, last_r, l2_held,
                   r2_held, collab, thr, lock, since_update, loop_running, book>>

\* SettingsDialog._ads_sens_changed
AdsSensChanged(text) ==
    /\ pc["gui"] = "idle"
    /\ LET parsed == ParseFloat(text)
       IN IF parsed.ok /\ Between(1, parsed, 20)
            THEN /\ Config' = [Config EXCEPT !.ADS_SENS_MULTIPLIER = parsed.value]
                 /\ Mark("ads", "white")
            ELSE /\ Mark("ads", "#ffcccc")
                 /\ UNCHANGED Config
    /\ UNCHANGED <<toggle_key, cursor_enabled, cur, ctrl, collab, thr, lock,
                   since_update, loop_running, book>>

\* SettingsDialog._recoil_comp_changed
RecoilCompChanged(text) ==
    /\ pc["gui"] = "idle"
    /\ LET parsed == ParseFloat(text)
       IN IF parsed.ok /\ Between(0, parsed, 50)
            THEN /\ Config' = [Config EXCEPT !.RECOIL_COMPENSATION = parsed.value]
                 /\ Mark("recoil", "white")
            ELSE /\ Mark("recoil", "#ffcccc")
                 /\ UNCHANGED Config
    /\ UNCHANGED <<toggle_key, cursor_enabled, cur, ctrl, collab, thr, lock,
                   since_update, loop_running, book>>

\* SettingsDialog._reset_defaults: Config.reset_to_defaults(), update_rate(),
\* and the dialog (its entries with it) is destroyed.
SettingsResetDefaults ==
    /\ pc["gui"] = "idle"
    /\ Config' = ResetToDefaults(Config)
    /\ update_interval' = UpdateInterval(ResetToDefaults(Config).UPDATE_RATE_HZ)
    /\ entry_bg' = [f \in SettingsFields |-> "white"]
    /\ UNCHANGED <<toggle_key, cursor_enabled, cur, active, gamepad, mouse_dx,
                   mouse_dy, keys, joystick_keys, last_l, last_r, l2_held,
                   r2_held, collab, thr, lock, since_update, loop_running, book>>

\* ------------------------------------------------------------ CursorManager

\* while ... and count < 100
CursorLoopLimit == 100

\* What user32.ShowCursor returns: the display count after the call.  The loops
\* only test its sign, so one value of each sign stands for all.
OsCounts == {-1, 0}

\* The loop conditions: hide_cursor goes on while cursor_count >= 0,
\* show_cursor while cursor_count < 0.
GoesOn(o, cursor_count) ==
    IF o = "hide_cursor" THEN cursor_count >= 0 ELSE cursor_count < 0

\* hide_cursor() / show_cursor(): if not self.enabled: return False; count = 0
CmBegin(o) ==
    /\ cur.pc = "idle"
    /\ IF ~cursor_enabled
         THEN cur' = [cur EXCEPT !.pc = "ret", !.op = o, !.result = "False"]
         ELSE cur' = [cur EXCEPT !.pc = "first", !.op = o, !.count = 0]
    /\ UNCHANGED <<Config, toggle_key, cursor_enabled, entry_bg, ctrl, collab,
                   thr, lock, since_update, loop_running, book>>

\* cursor_count = self.ShowCursor(False)   (True in show_cursor)
CmFirst(raises, returned) ==
    /\ cur.pc = "first"
    /\ IF raises
         THEN cur' = [cur EXCEPT !.pc = "ret", !.raised = TRUE,
                                 !.result = "False", !.os_calls = @ + 1]
         ELSE cur' = [cur EXCEPT !.pc = "loop", !.cursor_count = returned,
                                 !.os_calls = @ + 1]
    /\ UNCHANGED <<Config, toggle_key, cursor_enabled, entry_bg, ctrl, collab,
                   thr, lock, since_update, loop_running, book>>

\* while cursor_count >= 0 and count < 100:
\*     cursor_count = self.ShowCursor(False); count += 1
CmLoop(raises, returned) ==
    /\ cur.pc = "loop"
    /\ GoesOn(cur.op, cur.cursor_count)
    /\ cur.count < CursorLoopLimit
    /\ IF raises
         THEN cur' = [cur EXCEPT !.pc = "ret", !.raised = TRUE,
                                 !.result = "False", !.os_calls = @ + 1]
         ELSE cur' = [cur EXCEPT !.cursor_count = returned, !.count = @ + 1,
                                 !.os_calls = @ + 1]
    /\ UNCHANGED <<Config, toggle_key, cursor_enabled, entry_bg, ctrl, collab,
                   thr, lock, since_update, loop_running, book>>

\* The loop has ended: self.SetCursor(0), or LoadCursor and SetCursor of the
\* arrow; return True, or False when one of them raises.
CmSet(raises) ==
    /\ cur.pc = "loop"
    /\ ~(GoesOn(cur.op, cur.cursor_count) /\ cur.count < CursorLoopLimit)
    /\ IF raises
         THEN cur' = [cur EXCEPT !.pc = "ret", !.raised = TRUE,
                                 !.result = "False"]
         ELSE cur' = [cur EXCEPT !.pc = "ret", !.result = "True"]
    /\ UNCHANGED <<Config, toggle_key, cursor_enabled, entry_bg, ctrl, collab,
                   thr, lock, since_update, loop_running, book>>

\* The caller has the result.
CmReturn ==
    /\ cur.pc = "ret"
    /\ cur' = CurIdle
    /\ UNCHANGED <<Config, toggle_key, cursor_enabled, entry_bg, ctrl, collab,
                   thr, lock, since_update, loop_running, book>>

\* ------------------------------------------- GamepadController.shutdown

\* cleanup() on the main thread, once the window has closed: shutdown() starts
\* with self.deactivate().
ShutdownBegin ==
    /\ pc["gui"] = "idle"
    /\ op' = [op EXCEPT !["gui"] = "shutdown"]
    /\ Goto("gui", "deact_enter")
    /\ UNCHANGED <<cfg, ctrl, collab, loc, retval, calls, lock, since_update,
                   loop_running, book>>

\* deactivate() has returned into shutdown(): if self._gamepad: reset() and
\* update() (errors swallowed), then self._gamepad = None; shutdown() returns
\* into cleanup().
ShutdownRelease ==
    /\ pc["gui"] = "ret"
    /\ op["gui"] = "shutdown"
    /\ IF gamepad
         THEN /\ pad' = NeutralPad
              /\ calls' = Say("gui", <<"reset", "update">>)
         ELSE UNCHANGED <<pad, calls>>
    /\ gamepad' = FALSE
    /\ Goto("gui", "cleanup_stop")
    /\ UNCHANGED <<cfg, active, mouse_dx, mouse_dy, keys, joystick_keys,
                   last_l, last_r, l2_held, r2_held, update_interval,
                   mouse_suppress, kb_suppress, cursor_hidden, op, loc, retval,
                   lock, since_update, loop_running, book>>

\* keyboard_listener.stop(); mouse_listener.stop(); main() returns and the
\* process ends, its daemon processing thread with it.
CleanupStop ==
    /\ pc["gui"] = "cleanup_stop"
    /\ Goto("gui", "exited")
    /\ UNCHANGED <<cfg, ctrl, collab, op, loc, retval, calls, lock,
                   since_update, loop_running, book>>

\* shutdown() has returned.
ShutdownDone == pc["gui"] \in {"cleanup_stop", "exited"}

\* ------------------------------------------------------------ specifications

\* What the user types, clicks and moves.
TypedKeys == {CharKey("T"), CharKey("w"), SpecialKey("space"), CharKey("z")}
ClickedButtons == {"left", "right"}
MovedTo == {<<center[1] + 1, center[2] - 1>>}

\* What the device driver may do: creating the device may fail; update() may
\* raise at the n-th call of the wake-up signal (0: at none) or in a tick.
CreateOutcomes == BOOLEAN
WakeFailures == 0..(2 * WakeRepeats)
UpdateRaises == BOOLEAN

\* The accumulator and the displacement book stay within MaxAccum.
InRange(x, y) ==
    /\ Abs(mouse_dx + (x - center[1])) <= MaxAccum
    /\ Abs(mouse_dy + (y - center[2])) <= MaxAccum
    /\ Abs(owed[1] + (x - center[1])) <= MaxAccum
    /\ Abs(owed[2] + (y - center[2])) <= MaxAccum

\* An event arrives or a loop iteration starts: a handler begins.
Begin(typed, clicked, moved) ==
    \/ \E key \in typed : OnKeyPress(key) /\ UNCHANGED watch
    \/ \E key \in typed : OnKeyRelease(key) /\ UNCHANGED watch
    \/ \E b \in clicked, pressed \in BOOLEAN : OnMouseClick(b, pressed)
    \/ \E m \in moved : InRange(m[1], m[2]) /\ MmBegin(m[1], m[2])
    \/ GuiToggle
    \/ PiBegin

\* A running handler takes its next step: activate() or deactivate() on the
\* keyboard thread or the window's thread, ...
ToggleSteps(createOutcomes, wakeFailures) ==
    \E t \in Togglers :
        \/ ActEnter(t)
        \/ \E created \in createOutcomes : ActInit(t, created)
        \/ \E failed \in wakeFailures : ActWake(t, failed)
        \/ ActSuppress(t)
        \/ ActCursor(t)
        \/ ActCommit(t)
        \/ DeactEnter(t)
        \/ DeactReset(t)
        \/ DeactClear(t)
        \/ DeactUnsuppress(t)
        \/ DeactCursor(t)

ToggleStep(wakeFailures) == ToggleSteps(CreateOutcomes, wakeFailures)

\* ... on_mouse_move on the mouse thread, ...
MouseStep == MmLoadX \/ MmStoreX \/ MmLoadY \/ MmStoreY \/ MmLock

\* ... process_inputs on the processing thread.
SchedStep(updateRaises) ==
    \/ PiLock \/ PiLeft \/ PiReadDx \/ PiReadDy \/ PiZeroDx \/ PiZeroDy
    \/ PiRight \/ PiButtons \/ PiTriggers
    \/ \E raised \in updateRaises : PiUpdate(raised)

Returns == \E t \in Threads : Return(t)

\* Handlers run one at a time, each to its end, on a device whose update()
\* does not raise: every sequence of whole handler calls.
Next ==
    \/ Idle /\ Begin(TypedKeys, ClickedButtons, MovedTo)
    \/ ToggleStep({0})
    \/ MouseStep
    \/ SchedStep({FALSE})
    \/ Returns
    \/ Advance

Spec == Init /\ [][Next]_vars

\* The activation state machine under concurrency: toggles from the keyboard
\* thread and from the window interleave step by step with the processing loop.
NextLock ==
    \/ \E key \in {CharKey("T")} : OnKeyPress(key) /\ UNCHANGED watch
    \/ GuiToggle
    \/ PiBegin
    \/ ToggleStep({0})
    \/ SchedStep({FALSE})
    \/ Returns
    \/ Advance

SpecLock == Init /\ [][NextLock]_vars

\* The controller right after its first successful activate().
InitActive ==
    /\ Config = DefaultConfig
    /\ active = TRUE
    /\ gamepad = TRUE
    /\ lock = "none"
    /\ mouse_dx = 0
    /\ mouse_dy = 0
    /\ keys = [k \in DOMAIN DefaultConfig.KEY_MAPPINGS |-> FALSE]
    /\ joystick_keys = [k \in JoystickKeySet |-> FALSE]
    /\ last_l = <<0, 0>>
    /\ last_r = <<0, 0>>
    /\ l2_held = FALSE
    /\ r2_held = FALSE
    /\ since_update = 0
    /\ update_interval = UpdateInterval(DefaultConfig.UPDATE_RATE_HZ)
    /\ pad = NeutralPad
    /\ mouse_suppress = TRUE
    /\ kb_suppress = TRUE
    /\ cursor_hidden = TRUE
    /\ loop_running = TRUE
    /\ pc = [t \in Threads |-> "idle"]
    /\ op = [t \in Threads |-> "none"]
    /\ loc = [t \in Threads |-> NoLocals]
    /\ retval = [t \in Threads |-> "none"]
    /\ calls = [t \in Threads |-> << >>]
    /\ owed = <<0, 0>>
    /\ fresh = "none"
    /\ toggle_key = DefaultConfig.TOGGLE_KEY
    /\ down = {}
    /\ odd_presses = FALSE
    /\ cursor_enabled = TRUE
    /\ cur = CurIdle
    /\ entry_bg = [f \in SettingsFields |-> "white"]

\* The mouse accumulator under concurrency, while ACTIVE: on_mouse_move on the
\* mouse thread interleaves step by step with the processing loop.
NextRace ==
    \/ \E m \in MovedTo : InRange(m[1], m[2]) /\ MmBegin(m[1], m[2])
    \/ PiBegin
    \/ MouseStep
    \/ SchedStep({FALSE})
    \/ Returns
    \/ Advance

SpecRace == InitActive /\ [][NextRace]_vars

\* Toggle signals delivered one after another, on a device that can be
\* created and does not fail: the signals are counted as they are delivered.
CountedPress(key) ==
    /\ OnKeyPress(key)
    /\ odd_presses' = IF ParseKey(key) = Config.TOGGLE_KEY
                        THEN ~odd_presses ELSE odd_presses
    /\ UNCHANGED down

CountedGuiToggle ==
    /\ Toggle("gui")
    /\ odd_presses' = ~odd_presses
    /\ UNCHANGED down

NextToggle ==
    \/ /\ Idle
       /\ \/ \E key \in TypedKeys : CountedPress(key)
          \/ \E key \in TypedKeys : OnKeyRelease(key) /\ UNCHANGED watch
          \/ \E b \in ClickedButtons, pressed \in BOOLEAN :
                OnMouseClick(b, pressed)
          \/ CountedGuiToggle
          \/ PiBegin
    \/ ToggleSteps({TRUE}, {0})
    \/ SchedStep({FALSE})
    \/ Returns
    \/ Advance

SpecToggle == Init /\ [][NextToggle]_vars

\* The key dialog used while the engine runs: key events (whose physical
\* state is watched), toggles, ticks and remaps, one handler at a time.
KeyDown(key) ==
    /\ OnKeyPress(key)
    /\ down' = down \cup {ParseKey(key)}
    /\ UNCHANGED odd_presses

KeyUp(key) ==
    /\ OnKeyRelease(key)
    /\ down' = down \ {ParseKey(key)}
    /\ UNCHANGED odd_presses

RemapTyped == {CharKey("T"), SpecialKey("space"), CharKey("z")}
RemapRows == {"space", "c", "z"}
RemapEvents == {TkKey("z", "z"), TkKey("c", "c"), TkKey("t", "t"),
                TkKey("", "Tab")}

NextRemap ==
    \/ /\ Idle
       /\ \/ \E key \in RemapTyped : KeyDown(key)
          \/ \E key \in RemapTyped : KeyUp(key)
          \/ \E e \in RemapEvents : RemapToggleKey(ParseEventKey(e))
          \/ \E old \in RemapRows, e \in RemapEvents :
                RemapButtonKey(old, ParseEventKey(e))
          \/ ResetDefaults
          \/ PiBegin
    \/ ToggleSteps({TRUE}, {0})
    \/ SchedStep({FALSE})
    \/ Returns
    \/ Advance

SpecRemap == Init /\ [][NextRemap]_vars

\* The engine on a device whose update() may raise, in the wake-up signal and
\* in a tick; handlers run one at a time.
NextFault ==
    \/ /\ Idle
       /\ \/ \E key \in TypedKeys : OnKeyPress(key) /\ UNCHANGED watch
          \/ \E key \in TypedKeys : OnKeyRelease(key) /\ UNCHANGED watch
          \/ GuiToggle
          \/ PiBegin
    \/ ToggleSteps(CreateOutcomes, WakeFailures)
    \/ SchedStep(UpdateRaises)
    \/ Returns
    \/ Advance

SpecFault == Init /\ [][NextFault]_vars

\* The end of the program: cleanup() runs on the main thread while the
\* listeners and the processing thread are still alive; handlers run one at a
\* time, and events keep arriving until the listeners are stopped.
Quiet ==
    /\ \A t \in Threads \ {"gui"} : pc[t] = "idle"
    /\ pc["gui"] \in {"idle", "cleanup_stop"}

NextShutdown ==
    \/ /\ Quiet
       /\ \/ \E key \in TypedKeys : OnKeyPress(key) /\ UNCHANGED watch
          \/ \E key \in TypedKeys : OnKeyRelease(key) /\ UNCHANGED watch
          \/ GuiToggle
          \/ PiBegin
          \/ ShutdownBegin
          \/ CleanupStop
    \/ ToggleSteps(CreateOutcomes, {0})
    \/ ShutdownRelease
    \/ SchedStep({FALSE})
    \/ Returns
    \/ pc["gui"] # "exited" /\ Advance

SpecShutdown == Init /\ [][NextShutdown]_vars

\* The end of the program under concurrency: cleanup() on the main thread
\* interleaves step by step with the toggle key on the keyboard thread and
\* with the processing loop, until the process has ended.
Running == pc["gui"] # "exited"

NextClose ==
    \/ \E key \in {CharKey("T")} :
          Running /\ OnKeyPress(key) /\ UNCHANGED watch
    \/ Running /\ PiBegin
    \/ Running /\ ToggleSteps(CreateOutcomes, {0})
    \/ Running /\ SchedStep({FALSE})
    \/ Running /\ PiHandleGone
    \/ Running /\ Returns
    \/ Running /\ Advance
    \/ ShutdownBegin
    \/ ShutdownRelease
    \/ CleanupStop

SpecClose == Init /\ [][NextClose]_vars

\* The movement stick: the four direction keys pressed and released in any
\* order while ACTIVE, with ticks in between, one handler at a time.
DirectionKeys == {CharKey(JOYSTICK_KEYS[i]) : i \in 1..Len(JOYSTICK_KEYS)}

NextStick ==
    \/ /\ Idle
       /\ \/ \E key \in DirectionKeys : OnKeyPress(key) /\ UNCHANGED watch
          \/ \E key \in DirectionKeys : OnKeyRelease(key) /\ UNCHANGED watch
          \/ PiBegin
    \/ SchedStep({FALSE})
    \/ Returns
    \/ Advance

SpecStick == InitActive /\ [][NextStick]_vars

\* The settings dialog used while the engine runs: texts entered in its three
\* rows, its reset, the key dialog's reset, toggles and ticks, one handler at a
\* time.
SettingsEntries == {"60", "240", "59", "241", "abc", "0.5", "2.1", "-0.1", "nan"}

NextTune ==
    \/ /\ Idle
       /\ \/ \E text \in SettingsEntries : UpdateRateChanged(text)
          \/ \E text \in SettingsEntries : AdsSensChanged(text)
          \/ \E text \in SettingsEntries : RecoilCompChanged(text)
          \/ SettingsResetDefaults
          \/ ResetDefaults
          \/ GuiToggle
          \/ PiBegin
    \/ ToggleSteps({TRUE}, {0})
    \/ SchedStep({FALSE})
    \/ Returns
    \/ Advance

SpecTune == Init /\ [][NextTune]_vars

\* The engine with and without cursor control: the state main() leaves behind
\* when CursorManager() could or could not reach the Windows API; toggles,
\* mouse moves and ticks, one handler at a time.
InitCursor ==
    /\ Config = DefaultConfig
    /\ active = FALSE
    /\ gamepad \in BOOLEAN
    /\ lock = "none"
    /\ mouse_dx = 0
    /\ mouse_dy = 0
    /\ keys = [k \in DOMAIN DefaultConfig.KEY_MAPPINGS |-> FALSE]
    /\ joystick_keys = [k \in JoystickKeySet |-> FALSE]
    /\ last_l = <<0, 0>>
    /\ last_r = <<0, 0>>
    /\ l2_held = FALSE
    /\ r2_held = FALSE
    /\ since_update = 0
    /\ update_interval = UpdateInterval(DefaultConfig.UPDATE_RATE_HZ)
    /\ pad = NeutralPad
    /\ mouse_suppress = FALSE
    /\ kb_suppress = FALSE
    /\ cursor_hidden = FALSE
    /\ loop_running = TRUE
    /\ pc = [t \in Threads |-> "idle"]
    /\ op = [t \in Threads |-> "none"]
    /\ loc = [t \in Threads |-> NoLocals]
    /\ retval = [t \in Threads |-> "none"]
    /\ calls = [t \in Threads |-> << >>]
    /\ owed = <<0, 0>>
    /\ fresh = "none"
    /\ toggle_key = DefaultConfig.TOGGLE_KEY
    /\ down = {}
    /\ odd_presses = FALSE
    /\ cursor_enabled \in BOOLEAN
    /\ cur = CurIdle
    /\ entry_bg = [f \in SettingsFields |-> "white"]

NextCursor ==
    \/ /\ Idle
       /\ \/ \E key \in {CharKey("T")} : OnKeyPress(key) /\ UNCHANGED watch
          \/ \E m \in MovedTo : InRange(m[1], m[2]) /\ MmBegin(m[1], m[2])
          \/ GuiToggle
          \/ PiBegin
    \/ ToggleSteps({TRUE}, {0})
    \/ MouseStep
    \/ SchedStep({FALSE})
    \/ Returns
    \/ Advance

SpecCursor == InitCursor /\ [][NextCursor]_vars

\* The cursor manager on its own, enabled or not: hide_cursor() and
\* show_cursor() called one after another, the OS returning either sign of the
\* display count, or raising, at each call.
NextHide ==
    \/ \E o \in {"hide_cursor", "show_cursor"} : CmBegin(o)
    \/ \E raises \in BOOLEAN, returned \in OsCounts : CmFirst(raises, returned)
    \/ \E raises \in BOOLEAN, returned \in OsCounts : CmLoop(raises, returned)
    \/ \E raises \in BOOLEAN : CmSet(raises)
    \/ CmReturn

SpecHide == InitCursor /\ [][NextHide]_vars

\* The keyboard as the capture layer delivers it: the toggle key, a direction
\* key, a key of the table, and keys the engine does not know (a letter, a
\* function key, a key code without character, a key object that cannot be
\* parsed), pressed and released with toggles and ticks in between, one
\* handler at a time.
KnownKeys == {CharKey("T"), CharKey("w"), SpecialKey("space")}
UnknownKeys == {CharKey("z"), SpecialKey("f5"), SpecialKey("<255>"), BrokenKey}

NextKeys ==
    \/ /\ Idle
       /\ \/ \E key \in KnownKeys \cup UnknownKeys : KeyDown(key)
          \/ \E key \in KnownKeys \cup UnknownKeys : KeyUp(key)
          \/ PiBegin
    \/ ToggleSteps({TRUE}, {0})
    \/ SchedStep({FALSE})
    \/ Returns
    \/ Advance

SpecKeys == Init /\ [][NextKeys]_vars

\* The look stick: the controller is ACTIVE with some displacement pending and
\* some mouse buttons held, under each smoothing factor; ticks follow one
\* another (the first drains the displacement).
LookSmoothing == 0..10
LookDisplacement == {-MaxLook, -1, 0, 1, MaxLook}

LookStart(configs) ==
    /\ Config \in configs
    /\ active = TRUE
    /\ gamepad = TRUE
    /\ lock = "none"
    /\ mouse_dx \in LookDisplacement
    /\ mouse_dy \in LookDisplacement
    /\ keys = [k \in DOMAIN DefaultConfig.KEY_MAPPINGS |-> FALSE]
    /\ joystick_keys = [k \in JoystickKeySet |-> FALSE]
    /\ last_l = <<0, 0>>
    /\ last_r = <<0, 0>>
    /\ l2_held \in BOOLEAN
    /\ r2_held \in BOOLEAN
    /\ since_update = 0
    /\ update_interval = UpdateInterval(DefaultConfig.UPDATE_RATE_HZ)
    /\ pad = [NeutralPad EXCEPT !.rt = IF l2_held THEN Unit ELSE 0,
                                !.lt = IF r2_held THEN Unit ELSE 0]
    /\ mouse_suppress = TRUE
    /\ kb_suppress = TRUE
    /\ cursor_hidden = TRUE
    /\ loop_running = TRUE
    /\ pc = [t \in Threads |-> "idle"]
    /\ op = [t \in Threads |-> "none"]
    /\ loc = [t \in Threads |-> NoLocals]
    /\ retval = [t \in Threads |-> "none"]
    /\ calls = [t \in Threads |-> << >>]
    /\ owed = <<mouse_dx, mouse_dy>>
    /\ fresh = "none"
    /\ toggle_key = DefaultConfig.TOGGLE_KEY
    /\ down = {}
    /\ odd_presses = FALSE
    /\ cursor_enabled = TRUE
    /\ cur = CurIdle
    /\ entry_bg = [f \in SettingsFields |-> "white"]

InitLook ==
    LookStart({[DefaultConfig EXCEPT !.SMOOTHING = f] : f \in LookSmoothing})

NextLook ==
    \/ Idle /\ PiBegin
    \/ SchedStep({FALSE})
    \/ Returns
    \/ Advance

SpecLook == InitLook /\ [][NextLook]_vars

\* The look stick around the deadzone: the deadzone as shipped or equal to what
\* one pixel scales to (1.0 * 1.0 * 0.013), recoil control on or off, no
\* smoothing or smoothing 0.5.
AxisSmoothing == {0, 5}
AxisDeadzone == {DefaultConfig.DEADZONE,
                 DefaultConfig.SENS_X * 10 * DefaultConfig.DPI_SCALING}

InitAxis ==
    LookStart({[DefaultConfig EXCEPT !.SMOOTHING = f, !.DEADZONE = z,
                                     !.RECOIL_CONTROL_ENABLED = e] :
                 f \in AxisSmoothing, z \in AxisDeadzone, e \in BOOLEAN})

SpecAxis == InitAxis /\ [][NextLook]_vars

\* ------------------------------------------------------------------ claims

\* deactivate() on thread t has just returned after running from ACTIVE (the
\* early return makes no collaborator call).
Deactivated(t) == pc[t] = "ret" /\ op[t] = "deactivate" /\ calls[t] # << >>

NoFlagHeld ==
    /\ \A k \in DOMAIN keys : ~keys[k]
    /\ \A k \in DOMAIN joystick_keys : ~joystick_keys[k]
    /\ ~l2_held
    /\ ~r2_held

PadNeutral ==
    /\ pad.lx = 0 /\ pad.ly = 0 /\ pad.rx = 0 /\ pad.ry = 0
    /\ pad.lt = 0 /\ pad.rt = 0
    /\ pad.buttons \cap Range(Config.KEY_MAPPINGS) = {}

IsDeviceCall(c) ==
    c \in {"left_joystick", "right_joystick", "press_button", "release_button",
           "button", "left_trigger", "right_trigger", "update"}

\* The device calls of a handler end with update(): nothing written is left
\* unflushed.
FlushedLast(cs) ==
    LET dev == SelectSeq(cs, IsDeviceCall)
    IN Len(dev) > 0 /\ dev[Len(dev)] = "update"

\* C1: when deactivate() has completed from ACTIVE, every held-key flag, every
\* held-directional-key flag and both trigger flags (l2_held, r2_held) are
\* false.  (The code leaves the two trigger flags as they were.)
C1_FlagsClearedAfterDeactivate ==
    \A t \in Togglers : Deactivated(t) => NoFlagHeld

\* C2: when deactivate() has completed from ACTIVE, the device report has both
\* sticks at (0,0), both triggers at 0 and every button of the table released,
\* and update() was the last device call.
C2_DeviceNeutralAfterDeactivate ==
    \A t \in Togglers : Deactivated(t) => PadNeutral /\ FlushedLast(calls[t])

\* C2 witness: deactivate() returned while both mouse buttons were held and the
\* last active tick had the forward key held and a look-stick output.
C2_Witness ==
    \E t \in Togglers :
        /\ Deactivated(t)
        /\ l2_held /\ r2_held
        /\ last_l[2] = Unit
        /\ last_r # <<0, 0>>

\* C3: the first tick after a re-activation (deactivated, then activated again,
\* no input event since and no key, directional key or mouse button held)
\* sends neutral output.  (The accumulator keeps what was pending when the
\* engine was deactivated.)
C3_NeutralFirstTickAfterReactivation ==
    (pc["sched"] = "pi_update" /\ active /\ fresh = "react" /\ NoFlagHeld)
        => PadNeutral

\* C4: the step of activate() taken while ACTIVE, and of deactivate() taken
\* while INACTIVE, returns at once, changes no state and makes no collaborator
\* call.
C4_RepeatedToggleIsNoOp ==
    [][\A t \in Togglers :
          (/\ pc'[t] # pc[t]
           /\ \/ pc[t] = "act_enter" /\ active
              \/ pc[t] = "deact_enter" /\ ~active)
          => /\ pc'[t] = "ret"
             /\ calls'[t] = << >>
             /\ UNCHANGED <<cfg, ctrl, collab, lock, book>>]_vars

\* C4 witness: activate() returned True through its early return, the engine
\* being ACTIVE.
C4_Witness ==
    \E t \in Togglers :
        /\ pc[t] = "ret" /\ op[t] = "activate" /\ retval[t] = "True"
        /\ calls[t] = << >>
        /\ active

\* C5: when activate() has returned and the device could not be created, it
\* returned False, the state is INACTIVE and no wake-up signal, suppression
\* request or cursor request was made.
C5_FailedCreationAbortsActivation ==
    \A t \in Togglers :
        (pc[t] = "ret" /\ op[t] = "activate" /\ ~gamepad)
            => /\ retval[t] = "False"
               /\ ~active
               /\ calls[t] = << >>
               /\ ~mouse_suppress /\ ~kb_suppress /\ ~cursor_hidden

\* C5 witness: activate() returned False without a device.
C5_Witness ==
    \E t \in Togglers :
        pc[t] = "ret" /\ op[t] = "activate" /\ retval[t] = "False" /\ ~gamepad

\* Thread t is inside a with self._lock block.
InBody(t) ==
    pc[t] \in {"act_init", "act_wake", "act_suppress", "act_cursor",
               "act_commit", "deact_reset", "deact_clear", "deact_unsuppress",
               "deact_cursor", "pi_left", "pi_read_dx", "pi_read_dy",
               "pi_zero_dx", "pi_zero_dy", "pi_right", "pi_buttons",
               "pi_triggers", "pi_update"}

\* C6: at most one thread is inside the body of activate(), deactivate() or a
\* tick's mapping and flush, and it holds the lock.
C6_OneTransitionAtATime ==
    \A t, u \in Threads :
        /\ (InBody(t) /\ InBody(u)) => t = u
        /\ InBody(t) => lock = t

\* C6 witness: the keyboard thread is inside a transition while the window's
\* toggle and a tick both wait for the lock.
C6_Witness ==
    /\ InBody("kb")
    /\ pc["gui"] \in {"act_enter", "deact_enter"}
    /\ pc["sched"] = "pi_lock"

\* C7: displacement drained so far plus the pending accumulator equals the
\* displacement accumulated so far (owed = accumulated - drained), whenever no
\* drain is half way through zeroing.
C7_NoMovementLostOrRepeated ==
    pc["sched"] # "pi_zero_dy" => owed = <<mouse_dx, mouse_dy>>

\* C8: the pair a drain has read is the accumulator's value at an instant
\* between two whole on_mouse_move updates.
C8_DrainIsNotTorn ==
    pc["sched"] = "pi_zero_dx"
        => <<loc["sched"].dx, loc["sched"].dy>> \in loc["sched"].seen

\* C9: a tick that runs while INACTIVE goes from the lock straight to update(),
\* makes that one call and leaves the accumulator, the stored last outputs and
\* the device report as they were.
C9_InactiveTickOnlyFlushes ==
    [][(/\ pc'["sched"] # pc["sched"]
        /\ pc["sched"] \notin {"idle", "ret"}
        /\ ~active)
       => /\ UNCHANGED <<mouse_dx, mouse_dy, last_l, last_r, pad, owed>>
          /\ (pc["sched"] = "pi_lock" /\ gamepad) => pc'["sched"] = "pi_update"
          /\ pc["sched"] = "pi_update"
               => pc'["sched"] = "ret" /\ calls'["sched"] = <<"update">>]_vars

\* C9 witness: an INACTIVE tick has ended with update() as its only call while
\* displacement was pending in the accumulator.
C9_Witness ==
    /\ pc["sched"] = "ret" /\ op["sched"] = "process_inputs"
    /\ ~active
    /\ calls["sched"] = <<"update">>
    /\ mouse_dx # 0

\* C10: a process_inputs call made before a full period has elapsed returns at
\* once with no call, no drain and the time of the last tick unchanged; a call
\* that is let through restarts the period from now, however late it is.
C10_EarlyCallDoesNothing ==
    [][(pc["sched"] = "idle" /\ pc'["sched"] # "idle")
       => IF since_update < update_interval
            THEN /\ pc'["sched"] = "ret"
                 /\ calls'["sched"] = << >>
                 /\ UNCHANGED <<since_update, ctrl, collab, lock, book>>
            ELSE since_update' = 0]_vars

\* C10 witness: a call was skipped while ACTIVE with a device and displacement
\* pending.
C10_Witness ==
    /\ pc["sched"] = "ret" /\ op["sched"] = "process_inputs"
    /\ calls["sched"] = << >>
    /\ gamepad /\ active
    /\ mouse_dx # 0
    /\ since_update < update_interval

\* C11: starting INACTIVE with a device that can be created, whenever no
\* handler is running the state is ACTIVE exactly when an odd number of toggle
\* signals has been delivered.
C11_TogglesAlternate == Idle => (active <=> odd_presses)

\* C11 witness: ACTIVE again after a deactivation: at least three signals.
C11_Witness == Idle /\ active /\ odd_presses /\ fresh = "react"

\* C12: in every reachable state the listener's suppression predicate lets
\* the current toggle key (Config.TOGGLE_KEY) through, whatever the
\* suppression flag is.  (The listener keeps the toggle key it was built with.)
C12_ToggleKeyNeverSuppressed ==
    \A key \in RemapTyped :
        ParseKey(key) = Config.TOGGLE_KEY => ~SuppressEvent(key)

\* C17: a remap of one key of the table leaves every other entry of the table
\* as it was, and leaves the held flag of every other key as it was, whatever
\* the new key is.  (A new key that already has a button loses that button.)
C17_RemapTouchesOneEntry ==
    [][\A old \in RemapRows, e \in RemapEvents :
          RemapButtonKey(old, ParseEventKey(e))
          => \A k \in DOMAIN Config.KEY_MAPPINGS \ {old} :
                /\ k \in DOMAIN Config'.KEY_MAPPINGS
                /\ Config'.KEY_MAPPINGS[k] = Config.KEY_MAPPINGS[k]
                /\ k \in DOMAIN keys => (k \in DOMAIN keys' /\ keys'[k] = keys[k])]_vars

\* C18: at the flush of an active tick every pressed device button has a key
\* that is mapped to it now and is physically held, and after deactivate()
\* from ACTIVE no device button is pressed.  (A remap moves the held flag of
\* the old key to the new key, and a button that lost its key is never
\* released.)
C18_NoStaleButton ==
    /\ (pc["sched"] = "pi_update" /\ active)
         => \A b \in pad.buttons :
               \E k \in DOMAIN Config.KEY_MAPPINGS :
                   Config.KEY_MAPPINGS[k] = b /\ k \in down
    /\ \A t \in Togglers : Deactivated(t) => pad.buttons = {}

\* C19: the toggle key is neither a key of the table nor a direction key.
\* (A button can be remapped onto the toggle key.)
C19_ToggleKeyNotMapped ==
    /\ Config.TOGGLE_KEY \notin DOMAIN Config.KEY_MAPPINGS
    /\ Config.TOGGLE_KEY \notin JoystickKeySet

\* C13: when update() has raised in a tick, the activation lock is free and
\* the processing loop is still running, so that a later tick can flush the
\* device.  (The error leaves the loop of processing_loop.)
C13_SchedulerSurvivesFlushError ==
    (pc["sched"] = "ret" /\ retval["sched"] = "raise")
        => (loop_running /\ lock = "none")

\* C14: activate() returns True or False and never raises, and when it has
\* returned False the state is INACTIVE with suppression off.  (An update()
\* that raises in the wake-up signal propagates out of activate().)
C14_ActivateNeverRaises ==
    \A t \in Togglers :
        (pc[t] = "ret" /\ op[t] = "activate")
            => /\ retval[t] \in {"True", "False"}
               /\ retval[t] = "False"
                    => (~active /\ ~kb_suppress /\ ~mouse_suppress)

\* C15: shutdown() returns with the state INACTIVE and suppression off; the
\* device handle is released only when INACTIVE with a neutral report; and
\* once shutdown() has returned no step of a tick changes the device report or
\* calls the device.  (The processing loop is not cancelled: it goes on
\* ticking until the process ends.)
C15_ShutdownIsFinal ==
    [][/\ (~ShutdownDone /\ ShutdownDone')
            => (~active' /\ ~kb_suppress' /\ ~mouse_suppress')
       /\ (gamepad /\ ~gamepad') => (~active /\ PadNeutral)
       /\ (ShutdownDone /\ pc'["sched"] # pc["sched"])
            => (pad' = pad /\ calls'["sched"] \in {calls["sched"], << >>})]_vars

\* C16: once shutdown() has returned the state is INACTIVE and there is no
\* device.  (A toggle that arrives before the listeners are stopped calls
\* activate(), which creates a new device.)
C16_ShutdownIsTerminal == ShutdownDone => (~active /\ ~gamepad)

\* (x, y) in 1/Unit lies in the unit disc.  Each component is rounded away
\* from zero to 10/Unit before squaring, which keeps the squares within 32
\* bits and makes the test no weaker than x*x + y*y <= Unit*Unit.
InUnitDisc(x, y) ==
    LET cx == (Abs(x) + 9) \div 10
        cy == (Abs(y) + 9) \div 10
    IN cx * cx + cy * cy <= (Unit \div 10) * (Unit \div 10)

\* C20: right after a tick has mapped the direction keys, the movement stick
\* (x, y) it wrote satisfies x*x + y*y <= 1 and is (0, 0) when no direction
\* key is held; the same holds of the stick of each of the 16 sets of held
\* direction keys.
C20_MovementStickInUnitDisc ==
    /\ pc["sched"] = "pi_read_dx"
         => /\ InUnitDisc(pad.lx, pad.ly)
            /\ (\A k \in JoystickKeySet : ~joystick_keys[k])
                 => (pad.lx = 0 /\ pad.ly = 0)
    /\ \A jk \in [JoystickKeySet -> BOOLEAN] :
          LET l == LeftStick(jk)
          IN /\ InUnitDisc(l[1], l[2])
             /\ (\A k \in JoystickKeySet : ~jk[k]) => l = <<0, 0>>

\* C20 witness: a tick has mapped forward and right held together to a
\* diagonal shorter than the axis value on both axes.
C20_Witness ==
    /\ pc["sched"] = "pi_read_dx"
    /\ joystick_keys["w"] /\ joystick_keys["d"]
    /\ ~joystick_keys["a"] /\ ~joystick_keys["s"]
    /\ pad.lx = pad.ly
    /\ 0 < pad.lx /\ pad.lx < Unit

\* The tick has just written the look stick.
LookWritten == pc["sched"] = "pi_buttons"

\* C21: whatever displacement a tick drained, whichever triggers are held and
\* whatever the smoothing factor, the look-stick values held by the device and
\* the stored last outputs lie in [-1, 1].
C21_LookStickClamped ==
    /\ -Unit <= pad.rx /\ pad.rx <= Unit
    /\ -Unit <= pad.ry /\ pad.ry <= Unit
    /\ -Unit <= last_r[1] /\ last_r[1] <= Unit
    /\ -Unit <= last_r[2] /\ last_r[2] <= Unit

\* C21 witness: a tick drained the largest displacement on both axes and
\* wrote the look stick at the ends of its range.
C21_Witness ==
    /\ LookWritten
    /\ loc["sched"].dx = MaxLook /\ loc["sched"].dy = MaxLook
    /\ pad.rx = Unit /\ pad.ry = -Unit
    /\ last_r = <<Unit, -Unit>>

\* C22 as stated: with smoothing 0 and deadzone 0.0012, a tick that drained
\* (0, 0) writes the look stick (0, 0).
C22_ZeroDisplacementGivesZero ==
    (/\ LookWritten
     /\ Config.SMOOTHING = 0 /\ Config.DEADZONE = 120
     /\ loc["sched"].dx = 0 /\ loc["sched"].dy = 0)
        => (pad.rx = 0 /\ pad.ry = 0)

\* C22 amended: with smoothing 0 and deadzone 0.0012, a tick that drained
\* (0, 0) while recoil compensation does not apply (recoil control disabled or
\* the fire flag not held) writes the look stick (0, 0).
C22_ZeroGivesZeroUnlessRecoil ==
    (/\ LookWritten
     /\ Config.SMOOTHING = 0 /\ Config.DEADZONE = 120
     /\ loc["sched"].dx = 0 /\ loc["sched"].dy = 0
     /\ ~(Config.RECOIL_CONTROL_ENABLED /\ l2_held))
        => (pad.rx = 0 /\ pad.ry = 0 /\ last_r = <<0, 0>>)

\* C22 witness: such a tick, with the aim flag held, has written (0, 0).
C22_Witness ==
    /\ LookWritten
    /\ Config.SMOOTHING = 0 /\ Config.DEADZONE = 120
    /\ loc["sched"].dx = 0 /\ loc["sched"].dy = 0
    /\ ~l2_held /\ r2_held
    /\ pad.rx = 0 /\ pad.ry = 0

\* The value halfway between a and b.
Midpoint(a, b) == Quot(a + b, 2)

C24_DrainReturnsAndZeroes ==
    [][(pc["sched"] = "pi_zero_dy" /\ pc'["sched"] = "pi_right")
         => /\ mouse_dx' = 0 /\ mouse_dy' = 0
            /\ <<loc["sched"].dx, loc["sched"].dy>> = owed
            /\ owed' = <<0, 0>>]_vars

\* C24 witness: a second drain in a row has returned (0, 0); the one before it
\* had returned the largest displacement (the look stick still shows it).
C24_Witness ==
    /\ pc["sched"] = "pi_right"
    /\ loc["sched"].dx = 0 /\ loc["sched"].dy = 0
    /\ mouse_dx = 0 /\ mouse_dy = 0
    /\ Config.SMOOTHING = 0
    /\ last_r = <<Unit, -Unit>>

\* process_inputs has returned from a tick that ran the four mappers.
TickMapped ==
    /\ pc["sched"] = "ret"
    /\ op["sched"] = "process_inputs"
    /\ \E i \in 1..Len(calls["sched"]) : calls["sched"][i] = "left_joystick"

\* C25: after a tick run while ACTIVE, each button of the current key-to-button
\* table is pressed on the device exactly when its key's held flag is true.
C25_ButtonsFollowFlags ==
    TickMapped
        => \A k \in DOMAIN Config.KEY_MAPPINGS :
              (Config.KEY_MAPPINGS[k] \in pad.buttons)
                  <=> (k \in DOMAIN keys /\ keys[k])

\* C25 witness: after a remap of the jump key to "z", a tick has pressed its
\* button for the held "z" while the other buttons of the table are released.
C25_Witness ==
    /\ TickMapped
    /\ "z" \in DOMAIN Config.KEY_MAPPINGS
    /\ Config.KEY_MAPPINGS["z"] = "A"
    /\ "z" \in DOMAIN keys /\ keys["z"]
    /\ pad.buttons = {"A"}

\* C26: after a tick run while ACTIVE, the right trigger is 1.0 if the fire
\* flag is held and 0.0 otherwise, and the left trigger is 1.0 if the aim flag
\* is held and 0.0 otherwise.
C26_TriggersFollowFlags ==
    TickMapped
        => /\ pad.rt = (IF l2_held THEN Unit ELSE 0)
           /\ pad.lt = (IF r2_held THEN Unit ELSE 0)

\* C26 witness: a tick with only the fire flag held has pulled only the right
\* trigger.
C26_Witness ==
    /\ TickMapped
    /\ l2_held /\ ~r2_held
    /\ pad.rt = Unit /\ pad.lt = 0

\* C27: whenever a tick runs, the period of its rate gate is 1 / the
\* configured tick rate.  (The key dialog's reset restores the rate and leaves
\* the period.)
C27_PeriodFollowsRate ==
    op["sched"] = "process_inputs"
        => update_interval = UpdateInterval(Config.UPDATE_RATE_HZ)

\* The texts that are not a whole number in 60..240, not a number in 0.1..2.0
\* and not a number in 0.0..5.0.
InvalidRates == {"59", "241", "abc", "0.5", "2.1", "-0.1", "nan"}
InvalidAds == {"60", "240", "59", "241", "abc", "2.1", "-0.1", "nan"}
InvalidRecoil == {"60", "240", "59", "241", "abc", "-0.1", "nan"}

\* C28: an invalid text entered for the tick rate, the ADS multiplier or the
\* recoil compensation leaves the configuration and the scheduler period as
\* they were.
C28_InvalidTunableRejected ==
    [][/\ \A text \in InvalidRates :
             UpdateRateChanged(text) => UNCHANGED <<Config, update_interval>>
       /\ \A text \in InvalidAds :
             AdsSensChanged(text) => UNCHANGED <<Config, update_interval>>
       /\ \A text \in InvalidRecoil :
             RecoilCompChanged(text) => UNCHANGED <<Config, update_interval>>]_vars

\* C28 witness: all three rows hold a rejected text while the rate, the ADS
\* multiplier and the recoil compensation keep values entered before.
C28_Witness ==
    /\ \A f \in SettingsFields : entry_bg[f] = "#ffcccc"
    /\ Config.UPDATE_RATE_HZ = 60 /\ update_interval = UpdateInterval(60)
    /\ Config.ADS_SENS_MULTIPLIER = 5
    /\ Config.RECOIL_COMPENSATION = 21

\* C29: without cursor control, activate() on an existing device still returns
\* True with the state ACTIVE, and on_mouse_move does not raise.  (While
\* ACTIVE it raises AttributeError: the cursor manager has no center_x.)
C29_CoreSurvivesWithoutCursor ==
    ~cursor_enabled
        => /\ \A t \in Togglers :
                (pc[t] = "ret" /\ op[t] = "activate" /\ gamepad)
                    => (retval[t] = "True" /\ active)
           /\ (pc["ms"] = "ret" /\ op["ms"] = "on_mouse_move")
                => retval["ms"] # "raise"

\* The key is neither the toggle key, nor a direction key, nor a key of the
\* key-to-button table, or it cannot be parsed.
Unrecognised(key) ==
    \/ ParseRaises(key)
    \/ /\ ParseKey(key) # Config.TOGGLE_KEY
       /\ ParseKey(key) \notin JoystickKeySet
       /\ ParseKey(key) \notin DOMAIN Config.KEY_MAPPINGS

\* C30: a press or a release of an unrecognised key returns normally and
\* leaves the held flags, the activation state, the accumulator and everything
\* else of the engine as they were.
C30_UnknownKeyChangesNothing ==
    [][\A key \in KnownKeys \cup UnknownKeys :
          (Unrecognised(key) /\ (KeyDown(key) \/ KeyUp(key)))
              => /\ UNCHANGED <<cfg, ctrl, collab, thr, lock, since_update,
                                loop_running, owed>>
                 /\ DOMAIN keys' = DOMAIN Config.KEY_MAPPINGS]_vars

\* C30 witness: all four unknown keys are down while ACTIVE, and the flags of
\* the known keys held before are still the only ones set.
C30_Witness ==
    /\ Idle
    /\ active
    /\ down = {"w", "space"} \cup {ParseKey(key) : key \in UnknownKeys}
    /\ joystick_keys = [k \in JoystickKeySet |-> k = "w"]
    /\ keys = [k \in DOMAIN DefaultKeyMappings |-> k = "space"]

\* C31: an on_mouse_move that starts while INACTIVE returns at once, with the
\* accumulator as it was and no call to the cursor manager; the accumulator
\* grows only inside an on_mouse_move that runs while ACTIVE.
C31_InactiveMoveIsDropped ==
    [][/\ (pc["ms"] = "idle" /\ pc'["ms"] # "idle" /\ ~active)
            => /\ pc'["ms"] = "ret"
               /\ retval'["ms"] = "None"
               /\ calls'["ms"] = << >>
               /\ UNCHANGED <<mouse_dx, mouse_dy, owed>>
       /\ (owed' # owed /\ pc["ms"] # "idle") => active]_vars

\* C31 witness: a move arrived while INACTIVE with displacement still pending
\* from before the deactivation, and was dropped.
C31_Witness ==
    /\ pc["ms"] = "ret"
    /\ op["ms"] = "on_mouse_move"
    /\ ~active
    /\ calls["ms"] = << >>
    /\ mouse_dx # 0

SuppressCalls == <<"mouse_suppress_on", "kb_suppress_on">>
CursorCalls == <<"lock_to_center", "hide_cursor">>

ActivationCalls == WakeCalls(2 * WakeRepeats) \o SuppressCalls \o CursorCalls

\* C32: in an activation that goes through, the state stays INACTIVE until the
\* commit; when suppression is about to be requested the whole wake-up signal
\* has been written and flushed and has left the look stick at (0, 0) and BACK
\* released; the cursor is locked and hidden after the suppression requests;
\* the commit comes last, sets ACTIVE and reports success.
C32_ActivationOrder ==
    /\ [](\A t \in Togglers :
            /\ pc[t] \in {"act_init", "act_wake", "act_suppress", "act_cursor",
                          "act_commit"} => ~active
            /\ pc[t] = "act_wake" => calls[t] = << >>
            /\ pc[t] = "act_suppress"
                 => /\ calls[t] = WakeCalls(2 * WakeRepeats)
                    /\ pad.rx = 0 /\ pad.ry = 0 /\ "BACK" \notin pad.buttons
                    /\ ~mouse_suppress /\ ~kb_suppress /\ ~cursor_hidden
            /\ pc[t] = "act_cursor"
                 => /\ calls[t] = WakeCalls(2 * WakeRepeats) \o SuppressCalls
                    /\ mouse_suppress /\ kb_suppress /\ ~cursor_hidden
            /\ pc[t] = "act_commit"
                 => /\ calls[t] = ActivationCalls
                    /\ mouse_suppress /\ kb_suppress /\ cursor_hidden
            /\ (pc[t] = "ret" /\ op[t] = "activate" /\ calls[t] # << >>)
                 => retval[t] = "True" /\ calls[t] = ActivationCalls)
    /\ [][\A t \in Togglers :
            (pc[t] = "act_commit" /\ pc'[t] # "act_commit")
                => /\ active' /\ pc'[t] = "ret" /\ retval'[t] = "True"
                   /\ UNCHANGED <<collab, calls>>]_vars

\* C32 witness: an activation has gone through while a tick was waiting for
\* the lock.
C32_Witness ==
    /\ pc["kb"] = "ret" /\ op["kb"] = "activate"
    /\ Len(calls["kb"]) = Len(WakeCalls(2 * WakeRepeats)) + 4
    /\ active /\ mouse_suppress /\ kb_suppress /\ cursor_hidden
    /\ pc["sched"] = "pi_lock"

Count(cs, c) == Len(SelectSeq(cs, LAMBDA x : x = c))

NoKeyFlagHeld ==
    /\ \A k \in DOMAIN keys : ~keys[k]
    /\ \A k \in DOMAIN joystick_keys : ~joystick_keys[k]

\* The order of deactivate(), with flagsCleared the flags that must be false
\* before suppression is released.
DeactivationOrder(flagsCleared) ==
    \A t \in Togglers :
        /\ pc[t] \in {"deact_reset", "deact_clear", "deact_unsuppress",
                      "deact_cursor"} => ~active
        /\ pc[t] = "deact_reset" => calls[t] = << >>
        /\ pc[t] \in {"deact_reset", "deact_clear"}
             => /\ Count(calls[t], "mouse_suppress_off") = 0
                /\ Count(calls[t], "kb_suppress_off") = 0
                /\ Count(calls[t], "show_cursor") = 0
                /\ mouse_suppress /\ kb_suppress
        /\ pc[t] = "deact_unsuppress"
             => /\ calls[t] = ResetCalls(Config.KEY_MAPPINGS)
                /\ PadNeutral
                /\ flagsCleared
                /\ mouse_suppress /\ kb_suppress
        /\ pc[t] = "deact_cursor"
             => /\ Count(calls[t], "show_cursor") = 0
                /\ PadNeutral
                /\ flagsCleared
        /\ Deactivated(t)
             => /\ Count(calls[t], "mouse_suppress_off") = 1
                /\ Count(calls[t], "kb_suppress_off") = 1
                /\ Count(calls[t], "show_cursor") = 1
                /\ calls[t] = ResetCalls(Config.KEY_MAPPINGS)
                                 \o <<"mouse_suppress_off", "kb_suppress_off",
                                      "show_cursor">>

\* C33: in deactivate() the state is INACTIVE before the device is reset;
\* suppression is released and the cursor shown only after the device is
\* neutral and every held flag (keys, directional keys, both triggers) is
\* false; each listener gets exactly one release request and the cursor
\* exactly one show request.
C33_DeactivationOrder == DeactivationOrder(NoFlagHeld)

\* The same order with the key and directional-key flags only.
C33_OrderOfKeyFlags == DeactivationOrder(NoKeyFlagHeld)

C33_OrderReached ==
    /\ pc["kb"] = "deact_unsuppress" /\ NoKeyFlagHeld /\ l2_held
    /\ mouse_suppress

NoTransition == \A t \in Togglers : pc[t] \in {"idle", "ret"}

\* C34: whenever the state is INACTIVE and no activate() or deactivate() is in
\* progress, the device is neutral: sticks zero, mapped buttons released,
\* triggers zero.
C34_InactiveIsNeutral == (~active /\ NoTransition) => PadNeutral

\* C35: after any sequence of remaps and resets to defaults the key-to-button
\* table is injective: no two keys have the same button.
C35_TableInjective ==
    \A j, k \in DOMAIN Config.KEY_MAPPINGS :
        Config.KEY_MAPPINGS[j] = Config.KEY_MAPPINGS[k] => j = k

\* C35 witness: a row has been remapped onto a key that already had a button,
\* and another row onto a new key.
C35_Witness ==
    /\ "c" \in DOMAIN Config.KEY_MAPPINGS
    /\ Config.KEY_MAPPINGS["c"] = "A"
    /\ "space" \notin DOMAIN Config.KEY_MAPPINGS
    /\ \E k \in DOMAIN Config.KEY_MAPPINGS :
          k \notin DOMAIN ResetToDefaults(Config).KEY_MAPPINGS

\* What smoothing and the clamp make of a post-deadzone value v.
Smoothed(last, v) ==
    Max(-Unit, Min(Unit, Quot(last * Config.SMOOTHING
                                + v * (10 - Config.SMOOTHING), 10)))

\* C36: in the look-stick step each axis whose scaled magnitude is less than or
\* equal to the deadzone (equal included) contributes exactly 0 to the
\* smoothed output, whatever the other axis does; an axis above the deadzone
\* contributes its scaled value.
C36_DeadzonePerAxisBeforeSmoothing ==
    [][(pc["sched"] = "pi_right" /\ pc'["sched"] = "pi_buttons")
         => LET scaled == LookScaled(loc["sched"].dx, loc["sched"].dy, Config,
                                     l2_held, r2_held)
                Kept(v) == IF -Config.DEADZONE <= v /\ v <= Config.DEADZONE
                             THEN 0 ELSE v
            IN /\ pad'.rx = Smoothed(last_r[1], Kept(scaled[1]))
               /\ pad'.ry = Smoothed(last_r[2], Kept(scaled[2]))
               /\ last_r' = <<pad'.rx, pad'.ry>>]_vars

\* C36 witness: with smoothing 0.5 the horizontal axis was exactly at the
\* deadzone and nothing of it is in the output, while the vertical axis, far
\* above it, is kept.
C36_Witness ==
    /\ LookWritten
    /\ Config.SMOOTHING = 5
    /\ Config.DEADZONE = 1300
    /\ loc["sched"].dx = 1 /\ ~r2_held
    /\ loc["sched"].dy = -MaxLook
    /\ pad.rx = 0
    /\ pad.ry = Unit

\* C37: in the look-stick step the recoil compensation is added to the drained
\* dy exactly when recoil control is enabled and the fire flag is held, before
\* the sensitivity scaling and the one inversion of the vertical axis; in
\* every other case dy is used as drained.
C37_RecoilWhenEnabledAndFiring ==
    [][(pc["sched"] = "pi_right" /\ pc'["sched"] = "pi_buttons")
         => LET dy10 == IF Config.RECOIL_CONTROL_ENABLED /\ l2_held
                          THEN loc["sched"].dy * 10 + Config.RECOIL_COMPENSATION
                          ELSE loc["sched"].dy * 10
                mult == IF r2_held THEN Config.ADS_SENS_MULTIPLIER ELSE 10
                ry == -Quot(dy10 * Config.SENS_Y * mult * Config.DPI_SCALING, 10)
            IN pad'.ry = Smoothed(last_r[2], Deadzone(ry, Config))]_vars

\* C37 witness: a tick that drained nothing vertical, with recoil control
\* enabled and the fire flag held, wrote the compensation alone, scaled and
\* pulling down: -(1.8 * 1.0 * 1.0 * 0.013).
C37_Witness ==
    /\ LookWritten
    /\ Config.SMOOTHING = 0 /\ Config.DEADZONE = 120
    /\ loc["sched"].dy = 0 /\ l2_held /\ ~r2_held
    /\ Config.RECOIL_CONTROL_ENABLED
    /\ pad.ry = -2340

\* The other case: the fire flag held with recoil control disabled, nothing
\* added.
C37_WitnessDisabled ==
    /\ LookWritten
    /\ Config.SMOOTHING = 0
    /\ loc["sched"].dy = 0 /\ l2_held
    /\ ~Config.RECOIL_CONTROL_ENABLED /\ pad.ry = 0

InTransition(t) ==
    pc[t] \in {"act_enter", "act_init", "act_wake", "act_suppress",
               "act_cursor", "act_commit", "deact_enter", "deact_reset",
               "deact_clear", "deact_unsuppress", "deact_cursor"}

\* C38: whenever no activate() or deactivate() is in progress, each listener
\* suppresses exactly when the state is ACTIVE, and ACTIVE implies that the
\* device handle exists.
C38_SuppressionFollowsState ==
    (\A t \in Togglers : ~InTransition(t))
        => /\ mouse_suppress <=> active
           /\ kb_suppress <=> active
           /\ active => gamepad

\* C38 witness: shutdown() has run from ACTIVE and the toggle key has then
\* activated the engine again, on a new device.
C38_Witness ==
    /\ ShutdownDone
    /\ pc["kb"] = "ret" /\ op["kb"] = "activate" /\ retval["kb"] = "True"
    /\ active /\ gamepad /\ mouse_suppress /\ kb_suppress

\* C39: a tick is never at a call on the device handle after shutdown() has
\* released the handle.
C39_TickNeverUsesReleasedHandle == UsesHandle => gamepad

\* C40: a call of hide_cursor() or show_cursor() never loops beyond its limit;
\* when it returns, an enabled manager has called ShowCursor at least once and
\* at most 100 times, and the result is True when no OS call raised and False
\* when the manager is disabled or an OS call raised.
C40_CursorCallsBounded ==
    /\ cur.count <= CursorLoopLimit
    /\ cur.pc = "ret"
         => /\ cursor_enabled => (1 <= cur.os_calls /\ cur.os_calls <= 100)
            /\ ~cursor_enabled => cur.os_calls = 0
            /\ cur.result = IF cursor_enabled /\ ~cur.raised
                               THEN "True" ELSE "False"

\* The same with the number of OS calls the loops allow: one before the loop
\* and one in each of its 100 rounds.
C40_CursorCallsWithinLoopLimit ==
    /\ cur.count <= CursorLoopLimit
    /\ cur.pc = "ret"
         => /\ cursor_enabled
                 => (1 <= cur.os_calls /\ cur.os_calls <= CursorLoopLimit + 1)
            /\ ~cursor_enabled => cur.os_calls = 0
            /\ cur.result = IF cursor_enabled /\ ~cur.raised
                               THEN "True" ELSE "False"

\* hide_cursor() has returned True after the OS kept returning a display
\* count that is not negative.
C40_LoopExhausted ==
    /\ cur.pc = "ret" /\ cur.op = "hide_cursor" /\ cur.result = "True"
    /\ cur.count = CursorLoopLimit

====
